---- MODULE Spec2Model ----
(***************************************************************************)
(* A model of cf-proxy, a reverse proxy running as a Cloudflare Worker:    *)
(* the health checker (src/src/health.rs), the load balancer               *)
(* (src/src/load_balancer.rs), the access-control middleware               *)
(* (src/src/middleware.rs), the cache lookup (src/src/cache.rs) and the    *)
(* request pipeline ReverseProxy::handle_request (src/src/lib.rs).         *)
(*                                                                         *)
(* Strings that the code takes apart (URLs, paths, header values) are      *)
(* sequences of symbols.  "/" , ":" , "?" and "&" are symbols of their     *)
(* own; every other symbol stands for a run of characters holding none of  *)
(* them.  String concatenation is \o, and starts_with / split / take /     *)
(* join are computed on the sequence as the code computes them on the      *)
(* characters.  An Option<T> is a sequence of length 0 (None) or 1 (Some). *)
(***************************************************************************)
EXTENDS Integers, Sequences, FiniteSets, TLC

VARIABLES
    config,             \* ReverseProxy.config: the ProxyConfig read by from_env
    load_balancer,      \* ReverseProxy.load_balancer: backends, strategy, current_index
    unhealthy_backends, \* HealthChecker.unhealthy_backends: HashMap<String, DateTime>
    now,                \* the wall clock read by Utc::now(), in seconds
    kv,                 \* the PROXY_KV namespace: cache key -> stored text
    pc,                 \* where handle_request stands: idle, cache, select, create, done
    req,                \* the inbound request being handled
    is_url_proxy,       \* handle_request's local of that name
    target_url,         \* handle_request's local of that name
    backend,            \* Option: the backend get_backend returned for this request
    steps,              \* history: the pipeline steps this request has run, in order
    dispatches,         \* history: how many times this request was sent out
    outcome,            \* the terminal outcome of this request ("none" while running)
    response,           \* Option: the Response handle_request returned
    pre,                \* history: health map, load balancer and request at entry
    healthy_seen,       \* history: Option: the healthy list get_backend computed
    failed,             \* history: selected backend -> time of its last transport error
    served,             \* history: how many requests have entered handle_request
    picks,              \* history: the results of the direct get_backend calls
    last_op,            \* history: the last direct HealthChecker call
    proxy_req,          \* history: Option: the outbound request last sent
    backend_response,   \* Option: the Response Fetch::send returned
    procs,              \* the calls in flight: get_backend, or cache_response
    keys                \* history: the direct key generations and their results

vars == <<config, load_balancer, unhealthy_backends, now, kv, pc, req,
          is_url_proxy, target_url, backend, steps, dispatches, outcome,
          response, pre, healthy_seen, failed, served, picks, last_op,
          proxy_req, backend_response, procs, keys>>

----------------------------------------------------------------------------
(* Bounds of the model. *)

\* The clock runs from 0 to MaxTime.
MaxTime == 2
\* At most MaxRequests requests enter handle_request on one instance.
MaxRequests == 2
\* At most MaxPicks direct get_backend calls are made on one LoadBalancer.
MaxPicks == 4
\* At most MaxHealthOps direct HealthChecker calls are made on one checker.
MaxHealthOps == 3
\* At most MaxRules path rewrite rules are configured.
MaxRules == 2
\* At most MaxKeys direct generate_cache_key calls are made.
MaxKeys == 2
\* MaxProcs requests call get_backend on one LoadBalancer at the same time.
MaxProcs == 3
\* At most MaxCacheCalls cache_response calls are in flight at the same time.
MaxCacheCalls == 2
\* At most MaxAccessRules access rules are configured for the access check.
MaxAccessRules == 3

----------------------------------------------------------------------------
(* Options and strings. *)

None == <<>>
Some(x) == <<x>>
IsSome(o) == Len(o) = 1
Unwrap(o) == o[1]

Range(s) == {s[i] : i \in 1..Len(s)}

\* str::starts_with
StartsWith(s, p) == Len(s) >= Len(p) /\ SubSeq(s, 1, Len(p)) = p

\* str::contains for a symbol sequence
Contains(s, p) ==
    \E i \in 1..(Len(s) + 1) :
        i + Len(p) - 1 <= Len(s) /\ SubSeq(s, i, i + Len(p) - 1) = p

\* The positions of the "/" symbols of s, in order.
SlashPositions(s) == {i \in 1..Len(s) : s[i] = "/"}

\* s.split('/').take(n).collect::<Vec<_>>().join("/"): s up to, and without,
\* its n-th "/"; all of s when it has fewer than n.
SplitTakeJoin(s, n) ==
    LET ps == SlashPositions(s)
    IN  IF Cardinality(ps) < n THEN s
        ELSE LET p == CHOOSE q \in ps : Cardinality({r \in ps : r <= q}) = n
             IN  SubSeq(s, 1, p - 1)

----------------------------------------------------------------------------
(* ProxyConfig (src/src/config.rs). *)

BPlain  == <<"https", ":", "/", "/", "a.com">>
BPlain2 == <<"https", ":", "/", "/", "d.com">>
BPrefix == <<"https", ":", "/", "/", "b.com", "/", "api">>
BSlash  == <<"https", ":", "/", "/", "c.com", "/">>
\* A BACKEND_URLS entry without a scheme: from_env takes any string.
BNoScheme == <<"a.com">>

\* The BACKEND_URLS values the model runs with.
BackendLists == {<<>>, <<BPlain>>, <<BPlain, BPrefix, BSlash>>}

\* The LOAD_BALANCER_STRATEGY values the load balancer is run with.
StrategyNames == {"round_robin", "Random", "least_connections",
                  "weighted_round_robin", "fastest"}

\* The LOAD_BALANCER_STRATEGY values the pipeline is run with.
PipelineStrategyNames == {"round_robin", "Random", "least_connections"}

\* The HEALTH_CHECK_INTERVAL values (seconds) the model runs with.
Intervals == {0, 2}

\* The RETRY_ATTEMPTS values the model runs with (3 is the default).
RetryValues == {0, 3}

DeniedIp == <<"6.6.6.6">>
OkIp     == <<"1.2.3.4">>

\* The ACCESS_RULES values the model runs with.  The pattern of a
\* deny_user_agent rule is a regular expression: a sequence of literal
\* symbols, or "(" , which does not compile.
AccessRuleLists ==
    {<<>>,
     <<[rule_type |-> "deny_ip", pattern |-> DeniedIp],
       [rule_type |-> "deny_user_agent", pattern |-> <<"(">>],
       [rule_type |-> "deny_user_agent", pattern |-> <<"bot">>],
       [rule_type |-> "allow", pattern |-> OkIp],
       [rule_type |-> "deny_country", pattern |-> <<"KP">>],
       [rule_type |-> "allow_country", pattern |-> <<"US">>]>>}

\* The PATH_REWRITE_RULES value the model runs with (the rule of the documentation).
PathRewriteRules ==
    <<[pattern |-> <<"^", "/", "api", "/", "(.*)">>,
       replacement |-> <<"/", "v2", "/", "$1">>]>>

\* The CUSTOM_HEADERS value the model runs with.
CustomHeaders == [k \in {"X-Api-Key"} |-> <<"secret">>]

\* Every configuration over the given backend lists and strategy names.
\* With health checking disabled the interval is never read, and keeps its
\* default.
ConfigsOver(lists, names) ==
    {c \in [backends : lists,
            load_balancer_strategy : names,
            health_check_enabled : BOOLEAN,
            health_check_interval : Intervals,
            cache_enabled : BOOLEAN,
            access_rules : AccessRuleLists,
            retry_attempts : RetryValues,
            path_rewrite_rules : {PathRewriteRules},
            custom_headers : {CustomHeaders}] :
        ~c.health_check_enabled => c.health_check_interval = 2}

\* The configurations the pipeline is run with.
Configs == ConfigsOver(BackendLists, PipelineStrategyNames)

----------------------------------------------------------------------------
(* HealthChecker (src/src/health.rs). *)

\* is_healthy answering false for as long as the record is in the map.
is_healthy_until_cleared(cfg, unhealthy, t, b) ==
    IF ~cfg.health_check_enabled THEN TRUE
    ELSE b \notin DOMAIN unhealthy

\* is_healthy with the recovery time taken to be the failure time itself.
is_healthy_no_interval(cfg, unhealthy, t, b) ==
    IF ~cfg.health_check_enabled THEN TRUE
    ELSE IF b \in DOMAIN unhealthy /\ t < unhealthy[b] THEN FALSE ELSE TRUE

\* HealthChecker::is_healthy, reading the clock at t.
is_healthy(cfg, unhealthy, t, b) ==
    IF ~cfg.health_check_enabled THEN TRUE
    ELSE IF b \in DOMAIN unhealthy
            /\ t < unhealthy[b] + cfg.health_check_interval
         THEN FALSE
         ELSE TRUE

\* HealthChecker::mark_unhealthy: insert or overwrite the record with now.
mark_unhealthy(unhealthy, t, b) ==
    [k \in DOMAIN unhealthy \cup {b} |-> IF k = b THEN t ELSE unhealthy[k]]

\* HealthChecker::mark_healthy: remove the record, if present.
mark_healthy(unhealthy, b) ==
    [k \in DOMAIN unhealthy \ {b} |-> unhealthy[k]]

RECURSIVE FilterHealthyReversed(_, _, _, _)
\* The loop of get_healthy_backends inserting each healthy backend at the
\* front of the result instead of pushing it at the end.
FilterHealthyReversed(cfg, unhealthy, t, bs) ==
    IF bs = <<>> THEN <<>>
    ELSE FilterHealthyReversed(cfg, unhealthy, t, Tail(bs))
         \o (IF is_healthy(cfg, unhealthy, t, Head(bs)) THEN <<Head(bs)>> ELSE <<>>)

RECURSIVE FilterHealthy(_, _, _, _)
\* The loop of get_healthy_backends over the backends that are left.
FilterHealthy(cfg, unhealthy, t, bs) ==
    IF bs = <<>> THEN <<>>
    ELSE (IF is_healthy(cfg, unhealthy, t, Head(bs)) THEN <<Head(bs)>> ELSE <<>>)
         \o FilterHealthy(cfg, unhealthy, t, Tail(bs))

\* get_healthy_backends without the test of is_healthy.
get_healthy_backends_all(cfg, unhealthy, t) == cfg.backends

\* HealthChecker::get_healthy_backends: config.backends filtered by is_healthy.
get_healthy_backends(cfg, unhealthy, t) ==
    FilterHealthy(cfg, unhealthy, t, cfg.backends)

----------------------------------------------------------------------------
(* LoadBalancer (src/src/load_balancer.rs).                                *)
(*                                                                         *)
(* current_index is an AtomicUsize.  The crate is a Cloudflare Worker,     *)
(* built for wasm32, where usize has 32 bits; on a 64-bit build the same   *)
(* holds with 64.  A usize is held as two 16-bit limbs, value =            *)
(* hi * LimbBase + lo, so that the arithmetic is exact at the wrap.        *)

LimbBase == 65536

Usize(h, l) == [hi |-> h, lo |-> l]
UsizeZero == Usize(0, 0)
UsizeMax == Usize(LimbBase - 1, LimbBase - 1)

\* The value AtomicUsize::fetch_add(1) stores: c + 1, wrapping at 2^32.
WrappingInc(c) ==
    IF c.lo < LimbBase - 1 THEN Usize(c.hi, c.lo + 1)
    ELSE IF c.hi < LimbBase - 1 THEN Usize(c.hi + 1, 0)
    ELSE UsizeZero

\* AtomicUsize::fetch_add(1, Relaxed), one atomic step: the value it
\* returns and the value it stores.
fetch_add(c) == [old |-> c, new |-> WrappingInc(c)]

\* c % n for a usize c and 0 < n.
UsizeRem(c, n) == ((c.hi % n) * (LimbBase % n) + (c.lo % n)) % n

\* str::to_lowercase on the strategy names the model runs with.
to_lowercase(s) == IF s = "Random" THEN "random" ELSE s

\* impl From<&str> for LoadBalancerStrategy
LoadBalancerStrategyFrom(s) ==
    CASE to_lowercase(s) = "random" -> "Random"
      [] to_lowercase(s) = "least_connections" -> "LeastConnections"
      [] to_lowercase(s) = "weighted_round_robin" -> "WeightedRoundRobin"
      [] OTHER -> "RoundRobin"

\* LoadBalancer::with_strategy
with_strategy(backends, strategy) ==
    [backends |-> backends, strategy |-> strategy, current_index |-> UsizeZero]

\* LoadBalancer::round_robin_select: the result and the LoadBalancer it leaves.
round_robin_select(lb, backends) ==
    IF backends = <<>> THEN [result |-> None, lb |-> lb]
    ELSE [result |-> Some(backends[UsizeRem(lb.current_index, Len(backends)) + 1]),
          lb |-> [lb EXCEPT !.current_index = WrappingInc(lb.current_index)]]

\* LoadBalancer::random_select, the clock reading nanos nanoseconds.
random_select(lb, backends, nanos) ==
    IF backends = <<>> THEN [result |-> None, lb |-> lb]
    ELSE [result |-> Some(backends[(nanos % Len(backends)) + 1]), lb |-> lb]

\* least_connections_select returning the first backend of the list and
\* leaving the counter alone.
least_connections_select_first(lb, backends) ==
    [result |-> Some(backends[1]), lb |-> lb]

\* LoadBalancer::least_connections_select
least_connections_select(lb, backends) == round_robin_select(lb, backends)

\* LoadBalancer::weighted_round_robin_select
weighted_round_robin_select(lb, backends) == round_robin_select(lb, backends)

\* LoadBalancer::update_backends: the list replaced and the counter stored
\* as 0.  No function of the crate calls it.
update_backends(lb, backends) ==
    [lb EXCEPT !.backends = backends, !.current_index = UsizeZero]

\* get_backend falling back to all its own backends when none is healthy.
get_backend_fallback(lb, cfg, unhealthy, t, nanos) ==
    LET healthy_backends == get_healthy_backends(cfg, unhealthy, t)
    IN  IF healthy_backends = <<>> THEN round_robin_select(lb, lb.backends)
        ELSE IF lb.strategy = "Random"
             THEN random_select(lb, healthy_backends, nanos)
             ELSE round_robin_select(lb, healthy_backends)

\* LoadBalancer::get_backend, the health checker holding cfg and unhealthy
\* and the clock reading t.
get_backend(lb, cfg, unhealthy, t, nanos) ==
    LET healthy_backends == get_healthy_backends(cfg, unhealthy, t)
    IN  IF healthy_backends = <<>> THEN [result |-> None, lb |-> lb]
        ELSE CASE lb.strategy = "RoundRobin" ->
                    round_robin_select(lb, healthy_backends)
               [] lb.strategy = "Random" ->
                    random_select(lb, healthy_backends, nanos)
               [] lb.strategy = "LeastConnections" ->
                    least_connections_select(lb, healthy_backends)
               [] lb.strategy = "WeightedRoundRobin" ->
                    weighted_round_robin_select(lb, healthy_backends)

\* The nanosecond readings random_select is run with.
NanosValues == {0, 1, 2}

----------------------------------------------------------------------------
(* Headers, requests and responses (the worker crate's types). *)

HGet(h, n) == IF n \in DOMAIN h THEN Some(h[n]) ELSE None
HSet(h, n, v) == [k \in DOMAIN h \cup {n} |-> IF k = n THEN v ELSE h[k]]
HDelete(h, n) == [k \in DOMAIN h \ {n} |-> h[k]]
NoHeaders == [k \in {} |-> <<>>]

RECURSIVE HSetAll(_, _)
\* headers.set(key, value) for every entry of the map m.
HSetAll(h, m) ==
    IF DOMAIN m = {} THEN h
    ELSE LET k == CHOOSE x \in DOMAIN m : TRUE
         IN  HSetAll(HSet(h, k, m[k]), [x \in DOMAIN m \ {k} |-> m[x]])

\* An inbound request: the method, the scheme, path and query of its URL, its
\* headers, the country code of its cf data and its body.
Request(m, p, q, ip, cc, ua, b) ==
    [method |-> m, scheme |-> "https", path |-> p, query |-> q,
     headers |-> [k \in {"CF-Connecting-IP", "User-Agent", "Host"} |->
                    CASE k = "CF-Connecting-IP" -> ip
                      [] k = "User-Agent" -> ua
                      [] OTHER -> <<"proxy.dev">>],
     country |-> cc, body |-> b]

PathX == <<"/", "x">>
PathEmbedded == <<"/", "https", ":", "/", "/", "e.com", "/", "p">>
PathEmbeddedBad == <<"/", "https", ":", "/", "/">>

ReqGet == Request("GET", PathX, None, OkIp, Some(<<"US">>), <<"curl">>, <<>>)
ReqGetQuery ==
    Request("GET", PathX, Some(<<"q=1">>), OkIp, None, <<"curl">>, <<>>)
ReqPost ==
    Request("POST", PathX, None, OkIp, Some(<<"US">>), <<"curl">>, <<"data">>)
ReqOptions ==
    Request("OPTIONS", PathX, None, DeniedIp, Some(<<"KP">>), <<"bot">>, <<>>)
ReqDeniedIp ==
    Request("GET", PathX, None, DeniedIp, Some(<<"US">>), <<"curl">>, <<>>)
ReqDeniedCountry ==
    Request("GET", PathX, None, OkIp, Some(<<"CN">>), <<"curl">>, <<>>)
ReqDeniedAgent ==
    Request("GET", PathX, None, OkIp, Some(<<"US">>), <<"good", "bot">>, <<>>)
ReqEmbedded ==
    Request("GET", PathEmbedded, None, OkIp, Some(<<"US">>), <<"curl">>, <<>>)
ReqEmbeddedDenied ==
    Request("GET", PathEmbedded, None, DeniedIp, Some(<<"US">>), <<"curl">>, <<>>)
ReqEmbeddedBad ==
    Request("GET", PathEmbeddedBad, None, OkIp, Some(<<"US">>), <<"curl">>, <<>>)

\* The inbound requests the model runs with.
Requests == {ReqGet, ReqGetQuery, ReqPost, ReqOptions, ReqDeniedIp,
             ReqDeniedCountry, ReqDeniedAgent, ReqEmbedded, ReqEmbeddedDenied,
             ReqEmbeddedBad}

\* The request of a handler that is not running.
NoRequest == Request("GET", <<"/">>, None, <<>>, None, <<>>, <<>>)

ResponseOf(st, b, h) == [status |-> st, body |-> b, headers |-> h]

\* Response::error(msg, status)
ResponseError(msg, st) == ResponseOf(st, <<msg>>, NoHeaders)

\* Response::ok(text): status 200 and the content type of a text body.
\* Header names are case-insensitive and written in their usual case.
ResponseOk(text) ==
    ResponseOf(200, text,
               [k \in {"Content-Type"} |->
                   <<"text", "/", "plain; charset=utf-8">>])

\* Response::empty()
ResponseEmpty == ResponseOf(200, <<>>, NoHeaders)

----------------------------------------------------------------------------
(* Regular expressions (the regex crate), for the patterns the model runs  *)
(* with: an optional "^", literal symbols and an optional final group that *)
(* captures the rest of the text.                                          *)

\* Regex::new(pattern).is_ok(): "(" alone does not compile.
RegexNewOk(p) == "(" \notin Range(p)

RegexAnchored(p) == p # <<>> /\ Head(p) = "^"
RegexCaptures(p) == p # <<>> /\ p[Len(p)] = "(.*)"
RegexLiteral(p) ==
    SubSeq(p, IF RegexAnchored(p) THEN 2 ELSE 1,
              IF RegexCaptures(p) THEN Len(p) - 1 ELSE Len(p))

\* The places of text where the pattern's literal part matches.
RegexMatchStarts(p, text) ==
    {i \in 1..(Len(text) + 1) :
        /\ RegexAnchored(p) => i = 1
        /\ i + Len(RegexLiteral(p)) - 1 <= Len(text)
        /\ SubSeq(text, i, i + Len(RegexLiteral(p)) - 1) = RegexLiteral(p)}

\* Regex::is_match
RegexIsMatch(p, text) == RegexMatchStarts(p, text) # {}

RECURSIVE RegexExpand(_, _)
\* The replacement template with $1 replaced by the captured text.
RegexExpand(rep, cap) ==
    IF rep = <<>> THEN <<>>
    ELSE (IF Head(rep) = "$1" THEN cap ELSE <<Head(rep)>>)
         \o RegexExpand(Tail(rep), cap)

\* Regex::replace: the leftmost match replaced, the rest of text kept.
RegexReplace(p, text, rep) ==
    IF ~RegexIsMatch(p, text) THEN text
    ELSE LET i == CHOOSE j \in RegexMatchStarts(p, text) :
                      \A k \in RegexMatchStarts(p, text) : j <= k
             e == i + Len(RegexLiteral(p))
             rest == SubSeq(text, e, Len(text))
         IN  SubSeq(text, 1, i - 1)
             \o RegexExpand(rep, IF RegexCaptures(p) THEN rest ELSE <<>>)
             \o (IF RegexCaptures(p) THEN <<>> ELSE rest)

----------------------------------------------------------------------------
(* Middleware (src/src/middleware.rs). *)

\* One arm of the match in check_access_control: whether the rule denies.
RuleDenies(rq, rule) ==
    CASE rule.rule_type = "deny_ip" ->
            /\ IsSome(HGet(rq.headers, "CF-Connecting-IP"))
            /\ Unwrap(HGet(rq.headers, "CF-Connecting-IP")) = rule.pattern
      [] rule.rule_type = "allow_country" ->
            IsSome(rq.country) /\ Unwrap(rq.country) # rule.pattern
      [] rule.rule_type = "deny_country" ->
            IsSome(rq.country) /\ Unwrap(rq.country) = rule.pattern
      [] rule.rule_type = "deny_user_agent" ->
            /\ IsSome(HGet(rq.headers, "User-Agent"))
            /\ RegexNewOk(rule.pattern)
            /\ RegexIsMatch(rule.pattern, Unwrap(HGet(rq.headers, "User-Agent")))
      [] OTHER -> FALSE

\* check_access_control: false as soon as one rule denies, else true.
check_access_control(rq, cfg) ==
    \A i \in 1..Len(cfg.access_rules) : ~RuleDenies(rq, cfg.access_rules[i])

\* apply_request_middleware with the verdict of the access check dropped.
apply_request_middleware_unchecked(rq, cfg) ==
    [ok |-> TRUE,
     req |-> [method |-> rq.method, scheme |-> rq.scheme,
              path |-> rq.path, query |-> rq.query,
              headers |->
                  HSet(HSet(HSetAll(rq.headers, cfg.custom_headers),
                            "X-Proxy-Agent",
                            <<"Cloudflare-Workers-CF-Proxy", "/", "1.0">>),
                       "X-Forwarded-By", <<"CF-Proxy">>),
              country |-> None, body |-> <<>>]]

\* apply_request_middleware: Err("Access denied"), or the request rebuilt
\* from the method, the headers and the URL alone.
apply_request_middleware(rq, cfg) ==
    IF ~check_access_control(rq, cfg) THEN [ok |-> FALSE, req |-> rq]
    ELSE [ok |-> TRUE,
          req |-> [method |-> rq.method, scheme |-> rq.scheme,
                   path |-> rq.path, query |-> rq.query,
                   headers |->
                       HSet(HSet(HSetAll(rq.headers, cfg.custom_headers),
                                 "X-Proxy-Agent",
                                 <<"Cloudflare-Workers-CF-Proxy", "/", "1.0">>),
                            "X-Forwarded-By", <<"CF-Proxy">>),
                   country |-> None, body |-> <<>>]]

\* apply_response_middleware: the headers it sets and deletes are a clone
\* (Headers::clone copies); the response it returns is the one it was given.
apply_response_middleware(resp, cfg) == resp

----------------------------------------------------------------------------
(* CacheManager (src/src/cache.rs). *)

\* generate_cache_key hashing the method and the path alone.
generate_cache_key_no_query(rq) ==
    <<"proxy", ":", rq.method, ":">> \o rq.path

\* CacheManager::generate_cache_key: SHA-256 is taken to be injective, so
\* the key is the hashed string "proxy:{method}:{path}:{query}" itself.
generate_cache_key(rq) ==
    <<"proxy", ":", rq.method, ":">> \o rq.path \o <<":">>
    \o (IF IsSome(rq.query) THEN Unwrap(rq.query) ELSE <<>>)

\* get_cached_response that never finds the entry.
get_cached_response_miss(rq, cfg, store) == None

\* CacheManager::get_cached_response over the KV namespace store.
get_cached_response(rq, cfg, store) ==
    IF ~cfg.cache_enabled THEN None
    ELSE IF generate_cache_key(rq) \in DOMAIN store
         THEN Some(ResponseOk(store[generate_cache_key(rq)]))
         ELSE None

\* CacheManager::is_cacheable.  A header value is a sequence of directives.
is_cacheable(resp) ==
    /\ resp.status >= 200 /\ resp.status < 300
    /\ IsSome(HGet(resp.headers, "Cache-Control")) =>
           LET cache_control == Unwrap(HGet(resp.headers, "Cache-Control"))
           IN  /\ ~Contains(cache_control, <<"no-cache">>)
               /\ ~Contains(cache_control, <<"no-store">>)
               /\ ~Contains(cache_control, <<"private">>)
    /\ IsSome(HGet(resp.headers, "Vary")) =>
           ~Contains(Unwrap(HGet(resp.headers, "Vary")), <<"*">>)

\* CacheManager::generate_cache_key_from_response: a fresh version 4 UUID,
\* whatever the response; uuid is the one drawn.
generate_cache_key_from_response(resp, uuid) == <<uuid>>

\* CacheManager::cache_response up to its first await: whether the call
\* goes on (caching enabled and the response cacheable) or returns Ok at
\* once.
cache_response_goes_on(resp, cfg) ==
    cfg.cache_enabled /\ is_cacheable(resp)

\* CacheManager::cache_response at the end of kv.put(..).execute().await:
\* the store it leaves.  A put that fails is logged and writes nothing.
cache_response_put(store, cache_key, response_text, put_ok) ==
    IF ~put_ok THEN store
    ELSE [k \in DOMAIN store \cup {cache_key} |->
             IF k = cache_key THEN response_text ELSE store[k]]

\* CacheManager::cache_response over the KV namespace store when no other
\* call runs during its two awaits: the store it leaves.  No function of
\* the crate calls it.
cache_response(resp, cfg, store, uuid, put_ok) ==
    IF ~cache_response_goes_on(resp, cfg) THEN store
    ELSE cache_response_put(store,
                            generate_cache_key_from_response(resp, uuid),
                            resp.body, put_ok)

\* The contents of PROXY_KV the model runs with.
KvStates ==
    {[k \in {} |-> <<>>],
     [k \in {generate_cache_key(ReqGet), generate_cache_key(ReqEmbedded),
              generate_cache_key(ReqEmbeddedBad)}
        |-> <<"cached">>]}

----------------------------------------------------------------------------
(* URLs (the url crate), for absolute http and https URLs. *)

HttpPrefix  == <<"http", ":", "/", "/">>
HttpsPrefix == <<"https", ":", "/", "/">>

\* Host symbols that Url::parse refuses (an invalid domain character).
InvalidHosts == {"a%20b.com"}

\* The first place at or after i where s holds one of the symbols in stop;
\* Len(s) + 1 when there is none.
FirstOf(s, i, stop) ==
    IF \E j \in i..Len(s) : s[j] \in stop
    THEN CHOOSE j \in i..Len(s) :
            s[j] \in stop /\ \A k \in i..(j - 1) : s[k] \notin stop
    ELSE Len(s) + 1

\* url::Url::parse: None for an error.  The slashes after the scheme are
\* skipped, the authority is host or host:port, then the path, then ?query.
UrlParse(s) ==
    IF ~(StartsWith(s, HttpPrefix) \/ StartsWith(s, HttpsPrefix)) THEN None
    ELSE LET h == CHOOSE j \in 3..(Len(s) + 1) :
                      /\ j <= Len(s) => s[j] # "/"
                      /\ \A k \in 3..(j - 1) : s[k] = "/"
             e == FirstOf(s, h, {"/", "?"})
             q == FirstOf(s, h, {"?"})
         IN  IF h > Len(s) \/ e = h \/ s[h] \in InvalidHosts \/ s[h] = ":"
             THEN None
             ELSE Some([scheme |-> s[1],
                        host |-> s[h],
                        port |-> IF e = h + 3 /\ s[h + 1] = ":"
                                 THEN Some(s[h + 2]) ELSE None,
                        path |-> IF e = q THEN <<"/">> ELSE SubSeq(s, e, q - 1),
                        query |-> IF q > Len(s) THEN None
                                  ELSE Some(SubSeq(s, q + 1, Len(s)))])

\* Url::to_string
UrlToString(u) ==
    <<u.scheme, ":", "/", "/", u.host>>
    \o (IF IsSome(u.port) THEN <<":", Unwrap(u.port)>> ELSE <<>>)
    \o u.path
    \o (IF IsSome(u.query) THEN <<"?">> \o Unwrap(u.query) ELSE <<>>)

\* The last place of s holding "/" (a parsed path starts with one).
LastSlash(s) == CHOOSE j \in SlashPositions(s) : \A k \in SlashPositions(s) : k <= j

\* A reference that starts with a scheme: an absolute URL.
HasScheme(ref) == Len(ref) >= 2 /\ ref[2] = ":"

\* Url::join, None for an Err.  A reference with a scheme is parsed on its
\* own (the schemes the model runs with are special ones, with the
\* authority syntax of http) and fails as Url::parse does.  Any other
\* reference is a relative path without dot segments, with or without a
\* query: the base path up to its last "/", then the path of the
\* reference; the query is the reference's.
UrlJoin(u, ref) ==
    IF HasScheme(ref)
    THEN LET parsed == UrlParse(<<"https">> \o Tail(ref))
         IN  IF IsSome(parsed)
             THEN Some([Unwrap(parsed) EXCEPT !.scheme = ref[1]])
             ELSE None
    ELSE LET q == FirstOf(ref, 1, {"?"})
         IN  Some([u EXCEPT
                     !.path = SubSeq(u.path, 1, LastSlash(u.path))
                              \o SubSeq(ref, 1, q - 1),
                     !.query = IF q > Len(ref) THEN None
                               ELSE Some(SubSeq(ref, q + 1, Len(ref)))])

\* Request::new(url, method).is_ok(): the Workers runtime builds a Request
\* from an absolute URL alone.
RequestNewOk(url) == IsSome(UrlParse(url))

----------------------------------------------------------------------------
(* HealthChecker::perform_health_check (src/src/health.rs). *)

\* The ways the GET of perform_health_check can end: a transport failure
\* (None) or a response with a status (Some).
FetchResults == {None} \cup {Some(st) : st \in {199, 200, 299, 300, 500}}

\* HealthChecker::perform_health_check, the GET to backend + "/health"
\* ending as fetched: the value returned and the map left.
perform_health_check(cfg, unhealthy, t, b, fetched) ==
    IF ~cfg.health_check_enabled THEN [result |-> TRUE, unhealthy |-> unhealthy]
    ELSE IF ~RequestNewOk(b \o <<"/", "health">>)
         THEN [result |-> FALSE, unhealthy |-> unhealthy]
    ELSE IF IsSome(fetched)
         THEN LET is_healthy_ == Unwrap(fetched) >= 200 /\ Unwrap(fetched) < 300
              IN  IF is_healthy_
                  THEN [result |-> TRUE, unhealthy |-> mark_healthy(unhealthy, b)]
                  ELSE [result |-> FALSE,
                        unhealthy |-> mark_unhealthy(unhealthy, t, b)]
         ELSE [result |-> FALSE, unhealthy |-> mark_unhealthy(unhealthy, t, b)]

----------------------------------------------------------------------------
(* ReverseProxy (src/src/lib.rs): the functions handle_request calls. *)

\* Headers::set writes into the Headers object it is called on, and the
\* runtime refuses the write with an Err when that object is immutable.
\* The headers of a response made in the worker (Response::empty, a clone
\* of Headers) take the write.  Whether the headers of a response that
\* Fetch::send returned take it is the runtime's choice: set_ok says so.

\* The response add_cors_headers leaves when its five sets succeed.
with_cors_headers(resp) ==
    [resp EXCEPT !.headers =
        HSet(HSet(HSet(HSet(HSet(@,
            "Access-Control-Allow-Origin", <<"*">>),
            "Access-Control-Allow-Methods",
                <<"GET, POST, PUT, DELETE, OPTIONS, HEAD, PATCH">>),
            "Access-Control-Allow-Headers",
                <<"Content-Type, Authorization, X-Requested-With, Accept, Origin, User-Agent, DNT, Cache-Control, X-Mx-ReqToken, Keep-Alive, X-Requested-With, If-Modified-Since">>),
            "Access-Control-Max-Age", <<"86400">>),
            "Access-Control-Allow-Credentials", <<"true">>)]

\* ReverseProxy::add_cors_headers: None is the Err of the first set(..)?.
add_cors_headers(resp, set_ok) ==
    IF set_ok THEN Some(with_cors_headers(resp)) ELSE None

\* handle_cors_preflight with the headers set on a clone, as
\* middleware::handle_options_request sets them: the response stays bare.
handle_cors_preflight_bare == ResponseEmpty

\* ReverseProxy::handle_cors_preflight
handle_cors_preflight == Unwrap(add_cors_headers(ResponseEmpty, TRUE))

\* extract_target_url_from_path taking the rest of the path as the target
\* also when Url::parse refuses it.
extract_target_url_from_path_unparsed(rq) ==
    IF ~StartsWith(rq.path, <<"/">>) THEN None
    ELSE LET target_start == Tail(rq.path)
         IN  IF ~(StartsWith(target_start, HttpPrefix)
                  \/ StartsWith(target_start, HttpsPrefix))
             THEN None
             ELSE Some((IF IsSome(UrlParse(target_start))
                        THEN UrlToString(Unwrap(UrlParse(target_start)))
                        ELSE target_start)
                       \o (IF IsSome(rq.query)
                           THEN <<"?">> \o Unwrap(rq.query) ELSE <<>>))

\* ReverseProxy::extract_target_url_from_path
extract_target_url_from_path(rq) ==
    IF ~StartsWith(rq.path, <<"/">>) THEN None
    ELSE LET target_start == Tail(rq.path)
         IN  IF ~(StartsWith(target_start, HttpPrefix)
                  \/ StartsWith(target_start, HttpsPrefix))
             THEN None
             ELSE IF ~IsSome(UrlParse(target_start)) THEN None
             ELSE LET embedded_url == Unwrap(UrlParse(target_start))
                  IN  Some(UrlToString(embedded_url)
                           \o (IF IsSome(rq.query)
                               THEN <<IF IsSome(embedded_url.query)
                                      THEN "&" ELSE "?">>
                                    \o Unwrap(rq.query)
                               ELSE <<>>))

\* after_extract with the cache lookup placed before the test of the path.
after_extract_cache_first(url) == "cache"

\* handle_request after extract_target_url_from_path: a URL in the path
\* goes straight to the dispatch, anything else to the cache lookup.
after_extract(url) == IF IsSome(url) THEN "create" ELSE "cache"

RECURSIVE RewriteWithEvery(_, _)
\* The loop of apply_path_rewrite without its return: every matching rule
\* is applied, each to the result of the one before.
RewriteWithEvery(rules, path) ==
    IF rules = <<>> THEN path
    ELSE IF RegexNewOk(Head(rules).pattern)
            /\ RegexIsMatch(Head(rules).pattern, path)
         THEN RewriteWithEvery(Tail(rules),
                  RegexReplace(Head(rules).pattern, path, Head(rules).replacement))
         ELSE RewriteWithEvery(Tail(rules), path)

RECURSIVE RewriteWith(_, _)
\* The loop of apply_path_rewrite over the rules that are left.
RewriteWith(rules, path) ==
    IF rules = <<>> THEN path
    ELSE IF RegexNewOk(Head(rules).pattern)
            /\ RegexIsMatch(Head(rules).pattern, path)
         THEN RegexReplace(Head(rules).pattern, path, Head(rules).replacement)
         ELSE RewriteWith(Tail(rules), path)

\* ReverseProxy::apply_path_rewrite
apply_path_rewrite(cfg, path) == RewriteWith(cfg.path_rewrite_rules, path)

\* ReverseProxy::build_target_url
build_target_url(rq, cfg, b) ==
    b \o apply_path_rewrite(cfg, rq.path)
      \o (IF IsSome(rq.query) THEN <<"?">> \o Unwrap(rq.query) ELSE <<>>)

\* ReverseProxy::create_proxy_request: the outbound request.
create_proxy_request(rq, cfg, target) ==
    LET h0 == rq.headers
        h1 == IF IsSome(HGet(h0, "CF-Connecting-IP"))
              THEN HSet(h0, "X-Forwarded-For", Unwrap(HGet(h0, "CF-Connecting-IP")))
              ELSE h0
        h2 == HSet(h1, "X-Forwarded-Proto",
                   IF rq.scheme = "https" THEN <<"https">> ELSE <<"http">>)
        h3 == IF IsSome(HGet(h2, "Host"))
              THEN HSet(h2, "X-Forwarded-Host", Unwrap(HGet(h2, "Host")))
              ELSE h2
        h4 == HDelete(HDelete(h3, "Host"), "Origin")
    IN  [url |-> target, method |-> rq.method,
         headers |-> HSetAll(h4, cfg.custom_headers),
         body |-> IF rq.method # "GET" /\ rq.method # "HEAD"
                  THEN rq.body ELSE <<>>]

\* ReverseProxy::create_proxy_request at Request::new_with_init(target_url):
\* whether the outbound request is built; the Err goes up with "?".
new_with_init_ok(target) == RequestNewOk(target)

\* ReverseProxy::is_redirect_response
is_redirect_response(resp) == resp.status >= 300 /\ resp.status < 400

\* ReverseProxy::handle_redirect_response: None is the Err of
\* response.headers().set("Location", ..)?, which runs only when the
\* response has a Location header.
handle_redirect_response(resp, original_target, set_ok) ==
    IF ~IsSome(HGet(resp.headers, "Location")) THEN Some(resp)
    ELSE IF ~set_ok THEN None
    ELSE LET location == Unwrap(HGet(resp.headers, "Location"))
             target_url_ == UrlParse(original_target)
             new_location ==
                 IF StartsWith(location, <<"/">>)
                 THEN IF IsSome(target_url_)
                      THEN <<Unwrap(target_url_).scheme, ":", "/", "/",
                             Unwrap(target_url_).host>> \o location
                      ELSE location
                 ELSE IF StartsWith(location, HttpPrefix)
                         \/ StartsWith(location, HttpsPrefix)
                 THEN location
                 ELSE IF IsSome(target_url_)
                      THEN LET base_url == UrlJoin(Unwrap(target_url_), location)
                           IN  IF IsSome(base_url)
                               THEN UrlToString(Unwrap(base_url))
                               ELSE location
                      ELSE location
         IN  Some([resp EXCEPT !.headers = HSet(@, "Location", new_location)])

\* handle_request after a response has come back: redirect handling in URL
\* proxy mode, the response middleware (which sets on a clone of the
\* headers), the CORS headers.  None is the Err that handle_request hands
\* up with "?" from handle_redirect_response or add_cors_headers.
final_response(resp, cfg, url_proxy, target, set_ok) ==
    LET processed_response ==
            IF url_proxy /\ is_redirect_response(resp)
            THEN handle_redirect_response(resp, target, set_ok)
            ELSE Some(resp)
    IN  IF ~IsSome(processed_response) THEN None
        ELSE add_cors_headers(
                 apply_response_middleware(Unwrap(processed_response), cfg),
                 set_ok)

\* ReverseProxy::should_cache_response
should_cache_response(resp, cfg) ==
    /\ cfg.cache_enabled
    /\ resp.status >= 200 /\ resp.status < 300
    /\ IsSome(HGet(resp.headers, "Cache-Control")) =>
           LET cache_control == Unwrap(HGet(resp.headers, "Cache-Control"))
           IN  /\ ~Contains(cache_control, <<"no-cache">>)
               /\ ~Contains(cache_control, <<"no-store">>)

\* handle_request after the final response is built: PROXY_KV as it leaves
\* it.  The branch taken when should_cache_response holds writes a log
\* line; CacheManager::cache_response is called nowhere.
kv_after_response(store, rq, resp, cfg) ==
    IF should_cache_response(resp, cfg) THEN store ELSE store

\* health_check reporting "unhealthy" only when no backend is configured.
health_check_by_total(cfg, unhealthy, t) ==
    LET healthy_backends == get_healthy_backends(cfg, unhealthy, t)
    IN  ResponseOf(200,
            [status |-> IF cfg.backends = <<>> THEN "unhealthy" ELSE "healthy",
             healthy_backends |-> Len(healthy_backends),
             total_backends |-> Len(cfg.backends),
             backends |-> cfg.backends,
             timestamp |-> t],
            [k \in {"Content-Type"} |-> <<"application", "/", "json">>])

\* ReverseProxy::health_check: Response::from_json of the health status, the
\* clock reading t.
health_check(cfg, unhealthy, t) ==
    LET healthy_backends == get_healthy_backends(cfg, unhealthy, t)
    IN  ResponseOf(200,
            [status |-> IF healthy_backends = <<>> THEN "unhealthy" ELSE "healthy",
             healthy_backends |-> Len(healthy_backends),
             total_backends |-> Len(cfg.backends),
             backends |-> cfg.backends,
             timestamp |-> t],
            [k \in {"Content-Type"} |-> <<"application", "/", "json">>])

\* mark_on_backend_error without the test of is_url_proxy.
mark_on_backend_error_always(url_proxy, unhealthy, t, target) ==
    mark_unhealthy(unhealthy, t, SplitTakeJoin(target, 3))

\* handle_request on a transport error: the health map it leaves.  Only a
\* load-balanced request marks, and it marks the first three "/"-separated
\* parts of the target URL.
mark_on_backend_error(url_proxy, unhealthy, t, target) ==
    IF ~url_proxy
    THEN mark_unhealthy(unhealthy, t, SplitTakeJoin(target, 3))
    ELSE unhealthy

\* retries_after_error with a loop that sends again up to retry_attempts times.
retries_after_error_counted(cfg, sent) == sent <= cfg.retry_attempts

\* handle_request on a transport error returns the 502 failure: it has no
\* retry loop and reads config.retry_attempts nowhere.
retries_after_error(cfg, sent) == FALSE

\* The responses a backend or an embedded target answers with.
BackendResponses ==
    {ResponseOf(200, <<"hello">>, [k \in {"Server"} |-> <<"nginx">>]),
     ResponseOf(302, <<>>, [k \in {"Location"} |-> <<"/", "login">>])}

----------------------------------------------------------------------------
(* The request pipeline: ReverseProxy::handle_request, one action per      *)
(* stretch of code between two network calls.  handle_request takes        *)
(* &mut self, so one instance handles one request at a time.               *)

NoMap == [k \in {} |-> 0]
\* No get_backend call in flight.
NoProcs == <<>>
NoOp == [op |-> "none", backend |-> <<>>, at |-> 0, n |-> 0, result |-> TRUE]

\* What a request finds when it enters: the health map, the load balancer
\* and the request as received.
Snapshot(r) ==
    [unhealthy |-> unhealthy_backends, load_balancer |-> load_balancer,
     req |-> r]

\* The locals of a handler that is not running.
IdleLocals(p) ==
    /\ req = NoRequest
    /\ is_url_proxy = FALSE
    /\ target_url = <<>>
    /\ backend = None
    /\ steps = <<>>
    /\ dispatches = 0
    /\ outcome = "none"
    /\ response = None
    /\ healthy_seen = None
    /\ proxy_req = None
    /\ backend_response = None
    /\ pre = p

\* ReverseProxy::from_env: the instance as main builds it.
Init ==
    /\ config \in Configs
    /\ load_balancer =
           with_strategy(config.backends,
                         LoadBalancerStrategyFrom(config.load_balancer_strategy))
    /\ unhealthy_backends = NoMap
    /\ now = 0
    /\ kv \in KvStates
    /\ pc = "idle"
    /\ IdleLocals([unhealthy |-> NoMap, load_balancer |-> load_balancer,
                   req |-> NoRequest])
    /\ failed = NoMap
    /\ served = 0
    /\ picks = <<>>
    /\ last_op = NoOp
    /\ procs = NoProcs
    /\ keys = <<>>

\* handle_request up to its first network call: the CORS preflight, the
\* request middleware, extract_target_url_from_path.  This stretch reads
\* neither the load balancer nor the health checker.
Entry(r) ==
    /\ pc = "idle"
    /\ served < MaxRequests
    /\ served' = served + 1
    /\ LET mw == apply_request_middleware(r, config)
           url == extract_target_url_from_path(mw.req)
       IN  IF r.method = "OPTIONS"
           THEN /\ req' = r
                /\ steps' = <<"preflight">>
                /\ outcome' = "cors_preflight"
                /\ response' = Some(handle_cors_preflight)
                /\ pc' = "done"
                /\ UNCHANGED <<is_url_proxy, target_url>>
           ELSE IF ~mw.ok
           THEN /\ req' = r
                /\ steps' = <<"access_control">>
                /\ outcome' = "access_denied"
                /\ response' = None
                /\ pc' = "done"
                /\ UNCHANGED <<is_url_proxy, target_url>>
           ELSE IF IsSome(url)
           THEN /\ req' = mw.req
                /\ steps' = <<"access_control", "resolve">>
                /\ target_url' = Unwrap(url)
                /\ is_url_proxy' = TRUE
                /\ pc' = after_extract(url)
                /\ UNCHANGED <<outcome, response>>
           ELSE /\ req' = mw.req
                /\ steps' = <<"access_control", "resolve">>
                /\ pc' = after_extract(url)
                /\ UNCHANGED <<is_url_proxy, target_url, outcome, response>>
    /\ UNCHANGED <<config, now, kv, backend, dispatches, healthy_seen, failed,
                   picks, last_op, proxy_req, backend_response, procs, keys>>

\* One call of handle_request on an instance that has handled the earlier
\* requests, up to its first network call.
Receive(r) ==
    /\ Entry(r)
    /\ pre' = Snapshot(r)
    /\ UNCHANGED <<load_balancer, unhealthy_backends>>

\* handle_request at get_cached_response: a hit returns the cached response.
CacheLookup ==
    /\ pc = "cache"
    /\ LET cached == get_cached_response(req, config, kv)
       IN  /\ steps' = IF config.cache_enabled
                       THEN Append(steps, "cache_lookup") ELSE steps
           /\ IF IsSome(cached)
              THEN /\ outcome' = "cache_hit"
                   /\ response' = cached
                   /\ pc' = "done"
              ELSE /\ pc' = "select"
                   /\ UNCHANGED <<outcome, response>>
    /\ UNCHANGED <<config, load_balancer, unhealthy_backends, now, kv, req,
                   is_url_proxy, target_url, backend, dispatches, pre,
                   healthy_seen, failed, served, picks, last_op, proxy_req,
                   backend_response, procs, keys>>

\* handle_request at get_backend: 503 without a backend, else the target URL.
Selection ==
    /\ pc = "select"
    /\ \E nanos \in NanosValues :
         LET got == get_backend(load_balancer, config, unhealthy_backends, now,
                                nanos)
         IN  /\ load_balancer' = got.lb
             /\ healthy_seen' =
                    Some(get_healthy_backends(config, unhealthy_backends, now))
             /\ steps' = Append(steps, "select")
             /\ backend' = got.result
             /\ IF IsSome(got.result)
                THEN /\ target_url' =
                            build_target_url(req, config, Unwrap(got.result))
                     /\ is_url_proxy' = FALSE
                     /\ pc' = "create"
                     /\ UNCHANGED <<outcome, response>>
                ELSE /\ outcome' = "no_healthy_backend"
                     /\ response' =
                            Some(ResponseError("No healthy backends available", 503))
                     /\ pc' = "done"
                     /\ UNCHANGED <<target_url, is_url_proxy>>
    /\ UNCHANGED <<config, unhealthy_backends, now, kv, req, dispatches, pre,
                   failed, served, last_op, proxy_req,
                   backend_response, procs, keys>>

Select == Selection /\ UNCHANGED picks

\* handle_request at Fetch::send, which fails: the backend is marked and the
\* 502 failure returned.
DispatchErr ==
    /\ pc = "create"
    /\ new_with_init_ok(target_url)
    /\ proxy_req' = Some(create_proxy_request(req, config, target_url))
    /\ dispatches' = dispatches + 1
    /\ steps' = Append(steps, "dispatch")
    /\ unhealthy_backends' =
           mark_on_backend_error(is_url_proxy, unhealthy_backends, now, target_url)
    /\ failed' = IF is_url_proxy THEN failed
                 ELSE mark_unhealthy(failed, now, Unwrap(backend))
    /\ IF retries_after_error(config, dispatches + 1)
       THEN /\ pc' = "create"
            /\ UNCHANGED <<outcome, response>>
       ELSE /\ outcome' = "backend_unavailable"
            /\ response' = Some(ResponseError("Backend unavailable", 502))
            /\ pc' = "done"
    /\ UNCHANGED <<config, load_balancer, now, kv, req, is_url_proxy,
                   target_url, backend, pre, healthy_seen, served, picks,
                   last_op, backend_response, procs, keys>>

\* handle_request at Fetch::send, which answers resp, to its return: the
\* final response, or the Err of a header set that the runtime refuses.
DispatchOk(resp, set_ok) ==
    /\ pc = "create"
    /\ new_with_init_ok(target_url)
    /\ proxy_req' = Some(create_proxy_request(req, config, target_url))
    /\ dispatches' = dispatches + 1
    /\ steps' = Append(steps, "dispatch")
    /\ backend_response' = Some(resp)
    /\ LET final == final_response(resp, config, is_url_proxy, target_url,
                                   set_ok)
       IN  IF IsSome(final)
           THEN /\ outcome' = "proxied"
                /\ response' = final
                /\ kv' = kv_after_response(kv, req, Unwrap(final), config)
           ELSE /\ outcome' = "headers_error"
                /\ response' = None
                /\ kv' = kv
    /\ pc' = "done"
    /\ UNCHANGED <<config, load_balancer, unhealthy_backends, now, req,
                   is_url_proxy, target_url, backend, pre, healthy_seen,
                   failed, served, picks, last_op, procs, keys>>

\* handle_request has returned; the instance is ready for the next request.
Finish ==
    /\ pc = "done"
    /\ pc' = "idle"
    /\ req' = NoRequest
    /\ is_url_proxy' = FALSE
    /\ target_url' = <<>>
    /\ backend' = None
    /\ steps' = <<>>
    /\ dispatches' = 0
    /\ outcome' = "none"
    /\ response' = None
    /\ healthy_seen' = None
    /\ proxy_req' = None
    /\ backend_response' = None
    /\ pre' = Snapshot(NoRequest)
    /\ UNCHANGED <<config, load_balancer, unhealthy_backends, now, kv, failed,
                   served, picks, last_op, procs, keys>>

\* A second passes, between two requests or while the request is out.
Tick ==
    /\ pc \in {"idle", "create"}
    /\ now < MaxTime
    /\ now' = now + 1
    /\ UNCHANGED <<config, load_balancer, unhealthy_backends, kv, pc, req,
                   is_url_proxy, target_url, backend, steps, dispatches,
                   outcome, response, pre, healthy_seen, failed, served,
                   picks, last_op, proxy_req,
                   backend_response, procs, keys>>

Next ==
    \/ \E r \in Requests : Receive(r)
    \/ CacheLookup
    \/ Select
    \/ DispatchErr
    \/ \E resp \in BackendResponses, set_ok \in BOOLEAN : DispatchOk(resp, set_ok)
    \/ Finish
    \/ Tick

Spec == Init /\ [][Next]_vars

----------------------------------------------------------------------------
(* The load balancer alone: get_backend called again and again on one      *)
(* LoadBalancer whose healthy list stays fixed (no backend ever fails).    *)
(* current_index starts at a value that many earlier calls leave it at:    *)
(* the first values, the values around a carry into the upper limb, and    *)
(* the last values before the usize wraps.                                 *)

StartCounters ==
    {UsizeZero, Usize(0, 1), Usize(0, LimbBase - 1),
     Usize(LimbBase - 1, LimbBase - 3), Usize(LimbBase - 1, LimbBase - 2),
     UsizeMax}

LbBackendLists == {<<BPlain>>, <<BPlain, BPlain2>>, <<BPlain, BPrefix, BSlash>>}

LbConfigs ==
    {c \in ConfigsOver(LbBackendLists, StrategyNames) :
        /\ c.health_check_enabled /\ c.health_check_interval = 2
        /\ ~c.cache_enabled /\ c.access_rules = <<>> /\ c.retry_attempts = 3}

InitLB ==
    /\ config \in LbConfigs
    /\ \E c \in StartCounters :
         load_balancer =
             [with_strategy(config.backends,
                  LoadBalancerStrategyFrom(config.load_balancer_strategy))
              EXCEPT !.current_index = c]
    /\ unhealthy_backends = NoMap
    /\ now = 0
    /\ kv = NoMap
    /\ pc = "idle"
    /\ IdleLocals([unhealthy |-> NoMap, load_balancer |-> load_balancer,
                   req |-> NoRequest])
    /\ failed = NoMap
    /\ served = 0
    /\ picks = <<>>
    /\ last_op = NoOp
    /\ procs = NoProcs
    /\ keys = <<>>

\* One call of LoadBalancer::get_backend.
LbGetBackend ==
    /\ Len(picks) < MaxPicks
    /\ \E nanos \in NanosValues :
         LET got == get_backend(load_balancer, config, unhealthy_backends, now,
                                nanos)
         IN  /\ load_balancer' = got.lb
             /\ picks' = Append(picks, got.result)
    /\ UNCHANGED <<config, unhealthy_backends, now, kv, pc, req, is_url_proxy,
                   target_url, backend, steps, dispatches, outcome, response,
                   pre, healthy_seen, failed, served, last_op, proxy_req,
                   backend_response, procs, keys>>

NextLB == LbGetBackend

SpecLB == InitLB /\ [][NextLB]_vars

\* C1: with strategy RoundRobin and a healthy list fixed at N >= 1 entries,
\* any N consecutive get_backend calls return every one of the N backends
\* exactly once, whatever the counter was before the first of them.
C1_RoundRobinFullCycle ==
    load_balancer.strategy = "RoundRobin" =>
        LET n == Len(config.backends)
        IN  \A i \in 1..Len(picks) :
                i + n - 1 <= Len(picks) =>
                    /\ \A j \in i..(i + n - 1) : IsSome(picks[j])
                    /\ {Unwrap(picks[j]) : j \in i..(i + n - 1)}
                           = Range(config.backends)

----------------------------------------------------------------------------
(* The health checker alone: its methods called directly, in any order,    *)
(* while the clock runs.  failed keeps, for every backend, the time of the *)
(* last mark_unhealthy that no mark_healthy has followed.                  *)

HcBackendLists == {<<>>, <<BPlain, BPrefix>>, <<BPlain, BNoScheme>>}

HcConfigs ==
    {c \in ConfigsOver(HcBackendLists, {"round_robin"}) :
        ~c.cache_enabled /\ c.access_rules = <<>> /\ c.retry_attempts = 3}

InitHealth ==
    /\ config \in HcConfigs
    /\ load_balancer =
           with_strategy(config.backends,
                         LoadBalancerStrategyFrom(config.load_balancer_strategy))
    /\ unhealthy_backends = NoMap
    /\ now = 0
    /\ kv = NoMap
    /\ pc = "idle"
    /\ IdleLocals([unhealthy |-> NoMap, load_balancer |-> load_balancer,
                   req |-> NoRequest])
    /\ failed = NoMap
    /\ served = 0
    /\ picks = <<>>
    /\ last_op = NoOp
    /\ procs = NoProcs
    /\ keys = <<>>

HcUnchanged ==
    UNCHANGED <<config, load_balancer, now, kv, pc, req, is_url_proxy,
                target_url, backend, steps, dispatches, outcome, response,
                pre, healthy_seen, served, picks, proxy_req,
                backend_response, procs, keys>>

\* One call of HealthChecker::mark_unhealthy(b).
HcMarkUnhealthy(b) ==
    /\ last_op.n < MaxHealthOps
    /\ unhealthy_backends' = mark_unhealthy(unhealthy_backends, now, b)
    /\ failed' = [k \in DOMAIN failed \cup {b} |-> IF k = b THEN now ELSE failed[k]]
    /\ last_op' = [op |-> "mark_unhealthy", backend |-> b, at |-> now,
                   n |-> last_op.n + 1, result |-> TRUE]
    /\ HcUnchanged

\* One call of HealthChecker::mark_healthy(b).
HcMarkHealthy(b) ==
    /\ last_op.n < MaxHealthOps
    /\ unhealthy_backends' = mark_healthy(unhealthy_backends, b)
    /\ failed' = [k \in DOMAIN failed \ {b} |-> failed[k]]
    /\ last_op' = [op |-> "mark_healthy", backend |-> b, at |-> now,
                   n |-> last_op.n + 1, result |-> TRUE]
    /\ HcUnchanged

\* One call of HealthChecker::perform_health_check(b).
HcPerformHealthCheck(b, fetched) ==
    /\ last_op.n < MaxHealthOps
    /\ LET done == perform_health_check(config, unhealthy_backends, now, b,
                                        fetched)
       IN  /\ unhealthy_backends' = done.unhealthy
           /\ failed' =
                  IF ~config.health_check_enabled THEN failed
                  ELSE IF ~RequestNewOk(b \o <<"/", "health">>) THEN failed
                  ELSE IF IsSome(fetched) /\ Unwrap(fetched) \in 200..299
                       THEN [k \in DOMAIN failed \ {b} |-> failed[k]]
                       ELSE [k \in DOMAIN failed \cup {b} |->
                                IF k = b THEN now ELSE failed[k]]
           /\ last_op' = [op |-> "perform_health_check", backend |-> b,
                          at |-> now, n |-> last_op.n + 1,
                          result |-> done.result]
    /\ HcUnchanged

\* One call of ReverseProxy::health_check, the health endpoint.
HcHealthCheck ==
    /\ response' = Some(health_check(config, unhealthy_backends, now))
    /\ last_op' = [op |-> "health_check", backend |-> <<>>, at |-> now,
                   n |-> last_op.n, result |-> TRUE]
    /\ UNCHANGED <<config, load_balancer, unhealthy_backends, now, kv, pc, req,
                   is_url_proxy, target_url, backend, steps, dispatches,
                   outcome, pre, healthy_seen, failed, served, picks,
                   proxy_req, backend_response, procs, keys>>

\* One call of HealthChecker::is_healthy(b): it takes &self and leaves the
\* record map as it is.
HcIsHealthy(b) ==
    /\ last_op' = [op |-> "is_healthy", backend |-> b, at |-> now,
                   n |-> last_op.n,
                   result |-> is_healthy(config, unhealthy_backends, now, b)]
    /\ UNCHANGED <<unhealthy_backends, failed>>
    /\ HcUnchanged

NextHealth ==
    \/ HcHealthCheck
    \/ \E b \in Range(config.backends) : HcIsHealthy(b)
    \/ \E b \in Range(config.backends) : HcMarkUnhealthy(b)
    \/ \E b \in Range(config.backends) : HcMarkHealthy(b)
    \/ \E b \in Range(config.backends), f \in FetchResults :
          HcPerformHealthCheck(b, f)
    \/ Tick

SpecHealth == InitHealth /\ [][NextHealth]_vars

\* Whether is_healthy(b) answers true in this state.
HealthyNow(b) == is_healthy(config, unhealthy_backends, now, b)

\* mark_unhealthy(b) was the last call on the checker and the clock has not
\* moved since.
JustMarkedUnhealthy(b) ==
    last_op.op = "mark_unhealthy" /\ last_op.backend = b /\ last_op.at = now

\* C2 as claimed: is_healthy(B) is false immediately after mark_unhealthy(B),
\* and later it is true only if now >= failure_time + health_check_interval
\* (or mark_healthy(B) has removed the record).
C2_Claimed ==
    \A b \in Range(config.backends) :
        /\ JustMarkedUnhealthy(b) => ~HealthyNow(b)
        /\ (b \in DOMAIN failed /\ HealthyNow(b)) =>
               now >= failed[b] + config.health_check_interval

\* C2 as amended: with health checking enabled, is_healthy(B) is false
\* immediately after mark_unhealthy(B) when health_check_interval > 0, and
\* later it is true only if now >= failure_time + health_check_interval (or
\* mark_healthy(B) has removed the record); with health checking disabled
\* is_healthy(B) is true in every state.
C2_UnhealthyUntilRecovery ==
    \A b \in Range(config.backends) :
        IF config.health_check_enabled
        THEN /\ (JustMarkedUnhealthy(b) /\ config.health_check_interval > 0)
                    => ~HealthyNow(b)
             /\ (b \in DOMAIN failed /\ HealthyNow(b)) =>
                    now >= failed[b] + config.health_check_interval
        ELSE HealthyNow(b)

\* C2's case: a backend marked unhealthy earlier, with health checking
\* enabled, reads healthy again once its window has passed.
C2_Witness ==
    \E b \in Range(config.backends) :
        /\ config.health_check_enabled /\ config.health_check_interval > 0
        /\ b \in DOMAIN failed /\ HealthyNow(b)
        /\ last_op.op = "mark_unhealthy" /\ last_op.backend = b

----------------------------------------------------------------------------
(* The claims about the pipeline, checked under Spec. *)

\* The five headers ReverseProxy::add_cors_headers sets.
CorsHeaderNames ==
    {"Access-Control-Allow-Origin", "Access-Control-Allow-Methods",
     "Access-Control-Allow-Headers", "Access-Control-Max-Age",
     "Access-Control-Allow-Credentials"}

\* The request has touched neither the health map nor the load balancer.
SharedStateUntouched ==
    /\ unhealthy_backends = pre.unhealthy
    /\ load_balancer = pre.load_balancer

\* The backends whose recovery window, counted from their last transport
\* error, has not passed yet.
InRecoveryWindow(b) ==
    /\ b \in DOMAIN failed
    /\ config.health_check_enabled
    /\ now < failed[b] + config.health_check_interval

\* C3: in backend mode, when the dispatch to the selected backend B fails
\* with a transport error, the request ends with the 502 failure, and until
\* B's recovery window has passed is_healthy(B) is false and get_backend does
\* not return B; for every configured backend, also one with a path prefix
\* or a trailing slash.
C3_Claimed ==
    /\ (pc = "done" /\ ~is_url_proxy /\ dispatches > 0
        /\ outcome \notin {"proxied", "headers_error"})
           => /\ outcome = "backend_unavailable"
              /\ response = Some(ResponseError("Backend unavailable", 502))
    /\ \A b \in Range(config.backends) :
           InRecoveryWindow(b) =>
               /\ ~HealthyNow(b)
               /\ (pc = "create" /\ ~is_url_proxy) => backend # Some(b)

\* C4: a request resolved in embedded-target mode leaves the health map and
\* the round-robin counter as they were before it, on every outcome.
C4_EmbeddedLeavesSharedState ==
    (pc # "idle" /\ is_url_proxy) => SharedStateUntouched

\* C4's case: an embedded-target request whose dispatch failed.
C4_Witness ==
    /\ pc = "done" /\ is_url_proxy /\ outcome = "backend_unavailable"
    /\ config.health_check_enabled /\ config.backends # <<>>

\* C5: a request resolved in embedded-target mode issues no cache lookup and
\* is never answered from the cache.
C5_EmbeddedBypassesCache ==
    (pc # "idle" /\ is_url_proxy) =>
        /\ "cache_lookup" \notin Range(steps)
        /\ outcome # "cache_hit"
        /\ pc # "cache"

\* C5's case: an embedded-target request is done, caching is enabled and the
\* cache holds an entry under the request's fingerprint.
C5_Witness ==
    /\ pc = "done" /\ is_url_proxy /\ config.cache_enabled
    /\ generate_cache_key(req) \in DOMAIN kv

\* C6: every request is sent out at most once, whatever retry_attempts is;
\* a request that ends with the 502 failure was sent exactly once.
C6_AtMostOneDispatch ==
    /\ dispatches <= 1
    /\ outcome = "backend_unavailable" =>
           /\ dispatches = 1
           /\ Len(SelectSeq(steps, LAMBDA x : x = "dispatch")) = 1

\* C6's case: a transport failure under retry_attempts = 3.
C6_Witness ==
    /\ pc = "done" /\ outcome = "backend_unavailable"
    /\ config.retry_attempts = 3 /\ dispatches = 1

\* The strategies of LoadBalancerStrategy.
Strategies == {"RoundRobin", "Random", "LeastConnections", "WeightedRoundRobin"}

\* C7: whenever the healthy list is empty, get_backend returns no backend
\* for every strategy, and a backend-mode request that missed the cache ends
\* with the 503 failure without any dispatch.
C7_NoHealthyBackend ==
    /\ get_healthy_backends(config, unhealthy_backends, now) = <<>> =>
           \A st \in Strategies, nanos \in NanosValues :
               get_backend([load_balancer EXCEPT !.strategy = st], config,
                           unhealthy_backends, now, nanos).result = None
    /\ (pc # "idle" /\ healthy_seen = Some(<<>>)) =>
           /\ pc = "done"
           /\ outcome = "no_healthy_backend"
           /\ response = Some(ResponseError("No healthy backends available", 503))
           /\ backend = None
           /\ dispatches = 0
           /\ "dispatch" \notin Range(steps)

\* C7's case: every configured backend is unhealthy, and a request that
\* missed the cache has ended with the 503 failure.
C7_Witness ==
    /\ pc = "done" /\ outcome = "no_healthy_backend"
    /\ config.backends # <<>>
    /\ "cache_lookup" \in Range(steps)

\* The request is past the access check and its path holds no URL.
BackendMode ==
    /\ pc # "idle" /\ Len(steps) >= 2
    /\ ~IsSome(extract_target_url_from_path(pre.req))

\* C8: in backend mode a cache hit returns the cached response at once: no
\* backend is selected, no dispatch is made, the counter and the health map
\* stay as they were; also when no backend is healthy.
C8_CacheHitReturnsAtOnce ==
    /\ (BackendMode /\ pc \notin {"cache"} /\ config.cache_enabled
        /\ generate_cache_key(pre.req) \in DOMAIN kv)
           => /\ pc = "done"
              /\ outcome = "cache_hit"
              /\ response = Some(ResponseOk(kv[generate_cache_key(pre.req)]))
    /\ outcome = "cache_hit" =>
           /\ steps = <<"access_control", "resolve", "cache_lookup">>
           /\ backend = None /\ healthy_seen = None
           /\ dispatches = 0
           /\ SharedStateUntouched

\* C8's case: a cache hit while no backend is healthy.
C8_Witness ==
    /\ pc = "done" /\ outcome = "cache_hit"
    /\ config.backends # <<>>
    /\ get_healthy_backends(config, unhealthy_backends, now) = <<>>

\* C9: an OPTIONS request always ends with an empty response carrying the
\* full CORS header set, under every configuration, without access-rule
\* evaluation, cache lookup, backend selection or dispatch.
C9_PreflightAlwaysCors ==
    (pc # "idle" /\ pre.req.method = "OPTIONS") =>
        /\ pc = "done"
        /\ outcome = "cors_preflight"
        /\ IsSome(response)
        /\ Unwrap(response).body = <<>>
        /\ CorsHeaderNames \subseteq DOMAIN Unwrap(response).headers
        /\ steps = <<"preflight">>
        /\ dispatches = 0
        /\ SharedStateUntouched

\* C9's case: an OPTIONS request that the access rules would deny, with an
\* empty backend list and caching enabled.
C9_Witness ==
    /\ pc = "done" /\ pre.req.method = "OPTIONS"
    /\ ~check_access_control(pre.req, config)
    /\ config.backends = <<>> /\ config.cache_enabled

\* C10: a non-OPTIONS request that an access rule denies is aborted with the
\* access-denied failure before target resolution, cache lookup, backend
\* selection and dispatch; the health map and the counter are unchanged.
C10_DeniedAbortsFirst ==
    (pc # "idle" /\ pre.req.method # "OPTIONS"
     /\ ~check_access_control(pre.req, config)) =>
        /\ pc = "done"
        /\ outcome = "access_denied"
        /\ response = None
        /\ steps = <<"access_control">>
        /\ dispatches = 0
        /\ SharedStateUntouched

\* C10's case: a denied request whose fingerprint the cache holds.
C10_Witness ==
    /\ pc = "done" /\ outcome = "access_denied"
    /\ config.cache_enabled /\ generate_cache_key(pre.req) \in DOMAIN kv

\* The path starts with /http:// or /https:// and its remainder is no
\* absolute URL.
EmbeddedUnparsable(rq) ==
    /\ \/ StartsWith(rq.path, <<"/">> \o HttpPrefix)
       \/ StartsWith(rq.path, <<"/">> \o HttpsPrefix)
    /\ ~IsSome(UrlParse(Tail(rq.path)))

\* The "?query" suffix build_target_url appends.
QuerySuffix(rq) ==
    IF IsSome(rq.query) THEN <<"?">> \o Unwrap(rq.query) ELSE <<>>

----------------------------------------------------------------------------
(* The response path alone: handle_request standing at Fetch::send with a  *)
(* target URL resolved in either mode, and handle_redirect_response called *)
(* directly, over more targets, statuses and Location values than the      *)
(* pipeline above is run with.                                             *)

TargetX     == <<"https", ":", "/", "/", "a.com", "/", "x">>
TargetXY    == <<"https", ":", "/", "/", "a.com", "/", "x", "/", "y">>
TargetPort  == <<"http", ":", "/", "/", "a.com", ":", "8443", "/", "x", "?", "k=v">>
TargetNoUrl == <<"not-a-url", "/", "x">>

\* The target URLs the response path is run with.
RedirectTargets == {TargetX, TargetXY, TargetPort, TargetNoUrl}

\* The statuses a backend answers with: the ends of [300,400) and around.
RedirectStatuses == {200, 299, 300, 302, 399, 400}

LocRoot     == <<"/", "login">>
LocRelative == <<"bar">>
LocAbsolute == <<"http", ":", "/", "/", "b.com", "/", "z">>
LocNetPath  == <<"/", "/", "cdn.com", "/", "x">>
LocSubQuery == <<"sub", "/", "page", "?", "q=1">>
LocFtp      == <<"ftp", ":", "/", "/", "b.com", "/", "z">>
\* An absolute reference whose host Url::parse refuses: Url::join fails.
LocFtpBad   == <<"ftp", ":", "/", "/", "a%20b.com", "/">>

\* The Location headers a backend answers with (None: no such header).
RedirectLocations ==
    {None, Some(LocRoot), Some(LocRelative), Some(LocAbsolute), Some(LocNetPath),
     Some(LocSubQuery), Some(LocFtp), Some(LocFtpBad)}

\* The backend responses the response path is run with.
RedirectResponses ==
    {ResponseOf(st, <<>>, IF IsSome(loc)
                           THEN [k \in {"Location"} |-> Unwrap(loc)]
                           ELSE NoHeaders) :
        st \in RedirectStatuses, loc \in RedirectLocations}

RdConfigs ==
    {c \in ConfigsOver({<<BPlain>>}, {"round_robin"}) :
        /\ c.health_check_enabled /\ c.health_check_interval = 2
        /\ ~c.cache_enabled /\ c.access_rules = <<>> /\ c.retry_attempts = 3}

\* pc = "create": handle_request stands at Fetch::send, the outbound request
\* built from a target URL that parses.
\* pc = "redirect": handle_redirect_response is about to be called directly.
InitRedirect ==
    /\ config \in RdConfigs
    /\ load_balancer =
           with_strategy(config.backends,
                         LoadBalancerStrategyFrom(config.load_balancer_strategy))
    /\ unhealthy_backends = NoMap
    /\ now = 0
    /\ kv = NoMap
    /\ pc \in {"create", "redirect"}
    /\ req = NoRequest
    /\ is_url_proxy \in BOOLEAN
    /\ target_url \in RedirectTargets
    /\ pc = "redirect" => is_url_proxy
    /\ pc = "create" => new_with_init_ok(target_url)
    /\ backend = None
    /\ steps = <<>>
    /\ dispatches = 0
    /\ outcome = "none"
    /\ response = None
    /\ healthy_seen = None
    /\ proxy_req = None
    /\ backend_response = None
    /\ pre = [unhealthy |-> NoMap, load_balancer |-> load_balancer,
              req |-> NoRequest]
    /\ failed = NoMap
    /\ served = 0
    /\ picks = <<>>
    /\ last_op = NoOp
    /\ procs = NoProcs
    /\ keys = <<>>

RdUnchanged ==
    UNCHANGED <<config, load_balancer, unhealthy_backends, now, kv, req,
                is_url_proxy, target_url, backend, steps, dispatches, pre,
                healthy_seen, failed, served, picks, last_op, proxy_req,
                procs, keys>>

\* handle_request from the answer of Fetch::send to its return.
RdRespond(resp, set_ok) ==
    /\ pc = "create"
    /\ backend_response' = Some(resp)
    /\ response' = final_response(resp, config, is_url_proxy, target_url, set_ok)
    /\ outcome' = IF IsSome(response') THEN "proxied" ELSE "headers_error"
    /\ pc' = "done"
    /\ RdUnchanged

\* One call of handle_redirect_response(resp, target_url) on a response
\* that Fetch::send returned.
RdHandleRedirect(resp, set_ok) ==
    /\ pc = "redirect"
    /\ backend_response' = Some(resp)
    /\ response' = handle_redirect_response(resp, target_url, set_ok)
    /\ outcome' = IF IsSome(response') THEN "redirect_handled"
                  ELSE "redirect_error"
    /\ pc' = "done"
    /\ RdUnchanged

NextRedirect ==
    \/ \E resp \in RedirectResponses, set_ok \in BOOLEAN :
           RdRespond(resp, set_ok)
    \/ \E resp \in RedirectResponses, set_ok \in BOOLEAN :
           RdHandleRedirect(resp, set_ok)

SpecRedirect == InitRedirect /\ [][NextRedirect]_vars

\* The Location header of an optional response (None when there is none).
LocationOf(r) == HGet(Unwrap(r).headers, "Location")

\* handle_request has come to its end after Fetch::send answered.
Answered ==
    pc = "done" /\ outcome \in {"proxied", "headers_error"}

\* C12: the Location header of a backend response is rewritten only in
\* embedded-target mode and for a status in [300,400); in backend mode, and
\* for every status outside [300,400), the Location header returned to the
\* client is the one the backend supplied.
C12_Claimed ==
    Answered =>
        LET st == Unwrap(backend_response).status
        IN  (~is_url_proxy \/ st < 300 \/ st >= 400) =>
                /\ IsSome(response)
                /\ LocationOf(response) = LocationOf(backend_response)
                /\ Unwrap(response).status = st

\* Where the runtime takes the header sets and a response is returned: in
\* backend mode, and for every status outside [300,400), its Location
\* header is the one the backend supplied.
LocationKeptOutsideEmbeddedRedirect ==
    (pc = "done" /\ outcome = "proxied") =>
        LET st == Unwrap(backend_response).status
        IN  (~is_url_proxy \/ st < 300 \/ st >= 400) =>
                /\ LocationOf(response) = LocationOf(backend_response)
                /\ Unwrap(response).status = st

\* A 302 with a root-relative Location answered in backend mode, the
\* response returned.
BackendModeRedirectReturned ==
    /\ pc = "done" /\ outcome = "proxied" /\ ~is_url_proxy
    /\ Unwrap(backend_response).status = 302
    /\ LocationOf(response) = Some(LocRoot)

\* scheme://host of an absolute URL string, without port, path and query.
OriginOf(t) == SubSeq(t, 1, 5)

\* RFC 3986 reference resolution of a reference without dot segments: a
\* reference with a scheme is its own target; any other is appended to the
\* base without its query, up to the last "/" of its path.
Rfc3986Resolve(base, ref) ==
    IF HasScheme(ref) THEN ref
    ELSE LET b == SubSeq(base, 1, FirstOf(base, 1, {"?"}) - 1)
         IN  SubSeq(b, 1, LastSlash(b)) \o ref

\* The Location the rules of the redirect handling give for the Location
\* loc that the backend supplied.
ClaimedLocation(target, loc) ==
    IF ~IsSome(UrlParse(target)) THEN loc
    ELSE IF StartsWith(loc, <<"/">>) THEN OriginOf(target) \o loc
    ELSE IF StartsWith(loc, HttpPrefix) \/ StartsWith(loc, HttpsPrefix)
         THEN loc
    ELSE Rfc3986Resolve(target, loc)

\* A redirect with a Location header was answered in embedded-target mode,
\* or handle_redirect_response was called directly on such a response.
RedirectAnswered ==
    /\ pc = "done"
    /\ \/ outcome \in {"redirect_handled", "redirect_error"}
       \/ /\ Answered /\ is_url_proxy
          /\ Unwrap(backend_response).status \in 300..399
    /\ IsSome(LocationOf(backend_response))

\* C13: for a redirect in embedded-target mode with a parseable target URL,
\* a Location starting with / becomes scheme://host of the target followed
\* by the Location; a Location starting with http:// or https:// is left
\* unchanged; any other Location is resolved against the target URL by
\* RFC 3986 reference resolution (target https://a.com/x/y with Location
\* bar gives https://a.com/x/bar).  If the target URL does not parse, the
\* Location is left as supplied.
C13_Claimed ==
    RedirectAnswered =>
        /\ IsSome(response)
        /\ LocationOf(response)
               = Some(ClaimedLocation(target_url,
                                      Unwrap(LocationOf(backend_response))))

\* handle_redirect_response has run on the backend's response and has
\* returned one: called directly, or by handle_request for a redirect in
\* embedded-target mode.
RedirectHandled ==
    /\ pc = "done"
    /\ \/ outcome = "redirect_handled"
       \/ /\ outcome = "proxied" /\ is_url_proxy
          /\ Unwrap(backend_response).status \in 300..399

\* Where the runtime takes the header sets: a redirect handled gets the
\* Location the rules give, and a response without a Location header gets
\* none.
RedirectLocationRules ==
    RedirectHandled =>
        LET loc == LocationOf(backend_response)
            out == LocationOf(response)
        IN  /\ IF ~IsSome(loc) THEN ~IsSome(out)
               ELSE out = Some(ClaimedLocation(target_url, Unwrap(loc)))
            /\ (target_url = TargetX /\ loc = Some(LocRoot)) =>
                   out = Some(<<"https", ":", "/", "/", "a.com", "/", "login">>)
            /\ (target_url = TargetX /\ loc = Some(LocAbsolute)) =>
                   out = Some(<<"http", ":", "/", "/", "b.com", "/", "z">>)
            /\ (target_url = TargetXY /\ loc = Some(LocRelative)) =>
                   out = Some(<<"https", ":", "/", "/", "a.com", "/", "x", "/",
                                "bar">>)
            /\ (target_url = TargetPort /\ loc = Some(LocSubQuery)) =>
                   out = Some(<<"http", ":", "/", "/", "a.com", ":", "8443",
                                "/", "sub", "/", "page", "?", "q=1">>)
            /\ loc = Some(LocFtpBad) => out = loc

\* In embedded-target mode, a 302 whose Location is the relative reference
\* bar, for the target https://a.com/x/y, the response returned.
RelativeRedirectResolved ==
    /\ pc = "done" /\ outcome = "proxied" /\ is_url_proxy
    /\ target_url = TargetXY
    /\ Unwrap(backend_response).status = 302
    /\ LocationOf(backend_response) = Some(LocRelative)
    /\ LocationOf(response) # LocationOf(backend_response)

\* The origin of a parsed URL: scheme, host and port.
UrlOrigin(u) == <<u.scheme, u.host, u.port>>

\* C31: when a root-relative Location (starting with a single /) is
\* rewritten for a parseable target URL, the new Location parses to a URL
\* with the origin of the target URL: same scheme, same host and same
\* port, including a non-default port.
C31_Claimed ==
    (/\ RedirectHandled
     /\ IsSome(UrlParse(target_url))
     /\ IsSome(LocationOf(backend_response))
     /\ StartsWith(Unwrap(LocationOf(backend_response)), <<"/">>)
     /\ ~StartsWith(Unwrap(LocationOf(backend_response)), <<"/", "/">>)) =>
        LET out == UrlParse(Unwrap(LocationOf(response)))
        IN  /\ IsSome(out)
            /\ UrlOrigin(Unwrap(out)) = UrlOrigin(Unwrap(UrlParse(target_url)))

----------------------------------------------------------------------------
(* Path rewriting alone: build_target_url called for a selected backend,   *)
(* over rule lists in which several rules match the same path, a rule      *)
(* matches the result of another, a pattern matches twice in one path and  *)
(* a pattern does not compile.                                             *)

RuleApi      == [pattern |-> <<"^", "/", "api", "/", "(.*)">>,
                 replacement |-> <<"/", "v2", "/", "$1">>]
RuleApiUsers == [pattern |-> <<"^", "/", "api", "/", "users">>,
                 replacement |-> <<"/", "members">>]
RuleV2       == [pattern |-> <<"^", "/", "v2", "/">>,
                 replacement |-> <<"/", "v3", "/">>]
RuleOld      == [pattern |-> <<"old">>, replacement |-> <<"new">>]
RuleInvalid  == [pattern |-> <<"(">>, replacement |-> <<"/", "broken">>]

RewriteRules == {RuleApi, RuleApiUsers, RuleV2, RuleOld, RuleInvalid}

\* The PATH_REWRITE_RULES values path rewriting is run with.
RewriteRuleLists == UNION {[1..n -> RewriteRules] : n \in 0..MaxRules}

PathApiUsers == <<"/", "api", "/", "users">>
PathOther    == <<"/", "other">>
PathOldOld   == <<"/", "old", "/", "old">>
PathApiOld   == <<"/", "api", "/", "old">>
PathV2       == <<"/", "v2", "/", "x">>

\* The requests path rewriting is run with.
RewriteRequests ==
    {Request("GET", p, q, OkIp, None, <<"curl">>, <<>>) :
        p \in {PathApiUsers, PathOther, PathOldOld, PathApiOld, PathV2},
        q \in {None, Some(<<"q=1">>)}}

RwConfigs ==
    {[c EXCEPT !.path_rewrite_rules = rl] :
        c \in RdConfigs, rl \in RewriteRuleLists}

\* handle_request after get_backend has returned a backend.
InitRewrite ==
    /\ config \in RwConfigs
    /\ load_balancer =
           with_strategy(config.backends,
                         LoadBalancerStrategyFrom(config.load_balancer_strategy))
    /\ unhealthy_backends = NoMap
    /\ now = 0
    /\ kv = NoMap
    /\ pc = "select"
    /\ req \in RewriteRequests
    /\ is_url_proxy = FALSE
    /\ target_url = <<>>
    /\ backend = Some(config.backends[1])
    /\ steps = <<"access_control", "resolve", "select">>
    /\ dispatches = 0
    /\ outcome = "none"
    /\ response = None
    /\ healthy_seen = Some(config.backends)
    /\ proxy_req = None
    /\ backend_response = None
    /\ pre = [unhealthy |-> NoMap, load_balancer |-> load_balancer,
              req |-> req]
    /\ failed = NoMap
    /\ served = 1
    /\ picks = <<>>
    /\ last_op = NoOp
    /\ procs = NoProcs
    /\ keys = <<>>

\* handle_request at build_target_url.
RwBuildTargetUrl ==
    /\ pc = "select"
    /\ target_url' = build_target_url(req, config, Unwrap(backend))
    /\ pc' = "create"
    /\ UNCHANGED <<config, load_balancer, unhealthy_backends, now, kv, req,
                   is_url_proxy, backend, steps, dispatches, outcome, response,
                   pre, healthy_seen, failed, served, picks, last_op,
                   proxy_req, backend_response, procs, keys>>

NextRewrite == RwBuildTargetUrl

SpecRewrite == InitRewrite /\ [][NextRewrite]_vars

\* The rule compiles and its pattern matches the path.
RuleMatches(rule, path) ==
    RegexNewOk(rule.pattern) /\ RegexIsMatch(rule.pattern, path)

\* The target is the backend, then the given path, then the query.
TargetHasPath(path) ==
    target_url = Unwrap(backend) \o path \o QuerySuffix(req)

\* C14: path rewriting goes through the rules in configured order and
\* applies only the first rule whose pattern matches the request path, as
\* one substitution; later rules are never applied, and with no matching
\* rule the path stays as it is (^/api/(.*) -> /v2/$1 maps /api/users to
\* /v2/users and leaves /other as /other).
C14_FirstMatchingRuleOnly ==
    LET rules == config.path_rewrite_rules
        hits == {i \in 1..Len(rules) : RuleMatches(rules[i], req.path)}
    IN  pc = "create" =>
            /\ hits = {} => TargetHasPath(req.path)
            /\ \A i \in hits :
                   (\A j \in hits : i <= j) =>
                       TargetHasPath(RegexReplace(rules[i].pattern, req.path,
                                                  rules[i].replacement))
            /\ (Len(rules) >= 1 /\ rules[1] = RuleApi) =>
                   /\ req.path = PathApiUsers =>
                          TargetHasPath(<<"/", "v2", "/", "users">>)
                   /\ req.path = PathOther => TargetHasPath(PathOther)
            /\ (Len(rules) >= 1 /\ rules[1] = RuleOld
                /\ req.path = PathOldOld) =>
                   TargetHasPath(<<"/", "new", "/", "old">>)

\* C14's case: the first rule rewrites /api/users to /v2/users, which the
\* second rule would match, and the second rule is not applied.
C14_Witness ==
    /\ pc = "create"
    /\ config.path_rewrite_rules = <<RuleApi, RuleV2>>
    /\ req.path = PathApiUsers
    /\ TargetHasPath(<<"/", "v2", "/", "users">>)

----------------------------------------------------------------------------
(* More claims about the pipeline, checked under Spec. *)

\* C15: for a request that is neither OPTIONS, GET nor HEAD and that is
\* dispatched, the body of the outbound request equals the body of the
\* inbound request as the pipeline received it.
C15_Claimed ==
    (IsSome(proxy_req) /\ pre.req.method \notin {"OPTIONS", "GET", "HEAD"}) =>
        Unwrap(proxy_req).body = pre.req.body

\* C16: when a backend-mode response is cacheable (status in [200,300), no
\* no-cache, no-store or private in Cache-Control, no wildcard Vary) and
\* caching is enabled, the pipeline has stored it under the request's
\* fingerprint when it returns, so that a later request with the same
\* method, path and query is answered from the cache.
C16_Claimed ==
    (pc = "done" /\ outcome = "proxied" /\ ~is_url_proxy
     /\ config.cache_enabled /\ is_cacheable(Unwrap(backend_response)))
        => /\ generate_cache_key(pre.req) \in DOMAIN kv
           /\ IsSome(get_cached_response(req, config, kv))

\* C24: every response the pipeline returns after a successful dispatch
\* carries the fixed security headers (X-Content-Type-Options,
\* X-Frame-Options, X-XSS-Protection, Referrer-Policy), the X-Proxied-By
\* header and the full CORS header set, and carries neither a Server nor an
\* X-Powered-By header.
C24_Claimed ==
    (pc = "done" /\ outcome = "proxied") =>
        LET names == DOMAIN Unwrap(response).headers
        IN  /\ {"X-Content-Type-Options", "X-Frame-Options",
                "X-XSS-Protection", "Referrer-Policy"} \subseteq names
            /\ "X-Proxied-By" \in names
            /\ CorsHeaderNames \subseteq names
            /\ "Server" \notin names
            /\ "X-Powered-By" \notin names

\* C28: in every state reachable through the pipeline, every key of the
\* health-record map is the base URL string of a configured backend exactly
\* as configured: the map never holds a key that no is_healthy lookup of a
\* configured backend can match.
C28_Claimed ==
    DOMAIN unhealthy_backends \subseteq Range(config.backends)

----------------------------------------------------------------------------
(* The cache fingerprint alone: generate_cache_key called for one request  *)
(* after another, the requests differing in method, path, query and in     *)
(* what the fingerprint does not read (client address, body).              *)

\* The query strings of the requests: none, the empty one, and five
\* others, a colon being a character a query keeps as it is.
KeyQueries ==
    {None, Some(<<>>), Some(<<"a=1">>), Some(<<"a=2">>),
     Some(<<"a=1", "&", "b", ":", "2">>), Some(<<"b">>),
     Some(<<"a", ":", "b">>)}

\* A path with a colon in it, which Url::path() returns as it is.
PathColon == <<"/", "x", ":", "a">>

\* The requests generate_cache_key is run with.
KeyRequests ==
    {Request(m, p, q, ip, None, <<"curl">>, IF m = "POST" THEN <<"data">> ELSE <<>>) :
        m \in {"GET", "POST"}, p \in {PathX, PathOther, PathColon},
        q \in KeyQueries, ip \in {OkIp, DeniedIp}}

InitKey ==
    /\ config \in RdConfigs
    /\ load_balancer =
           with_strategy(config.backends,
                         LoadBalancerStrategyFrom(config.load_balancer_strategy))
    /\ unhealthy_backends = NoMap
    /\ now = 0
    /\ kv = NoMap
    /\ pc = "idle"
    /\ IdleLocals([unhealthy |-> NoMap, load_balancer |-> load_balancer,
                   req |-> NoRequest])
    /\ failed = NoMap
    /\ served = 0
    /\ picks = <<>>
    /\ last_op = NoOp
    /\ procs = NoProcs
    /\ keys = <<>>

\* One call of CacheManager::generate_cache_key(r).
KeyGenerate(r) ==
    /\ Len(keys) < MaxKeys
    /\ keys' = Append(keys, [req |-> r, key |-> generate_cache_key(r)])
    /\ UNCHANGED <<config, load_balancer, unhealthy_backends, now, kv, pc, req,
                   is_url_proxy, target_url, backend, steps, dispatches,
                   outcome, response, pre, healthy_seen, failed, served,
                   picks, last_op, proxy_req, backend_response, procs>>

NextKey == \E r \in KeyRequests : KeyGenerate(r)

SpecKey == InitKey /\ [][NextKey]_vars

\* The query string of a request as text: url.query(), the empty string
\* when the URL has no query.
QueryText(rq) == IF IsSome(rq.query) THEN Unwrap(rq.query) ELSE <<>>

\* C17: the fingerprint depends only on method, path and query: two
\* requests with the same method, path and query string get the same
\* fingerprint, and two requests with the same method and path but
\* different query strings get different fingerprints.
C17_FingerprintOfMethodPathQuery ==
    \A i, j \in 1..Len(keys) :
        (keys[i].req.method = keys[j].req.method
         /\ keys[i].req.path = keys[j].req.path) =>
            (keys[i].key = keys[j].key
                <=> QueryText(keys[i].req) = QueryText(keys[j].req))

\* C17's case: two requests that differ in client address and in nothing
\* the fingerprint reads, and whose fingerprint was computed.
C17_Witness ==
    /\ Len(keys) = 2
    /\ keys[1].req # keys[2].req
    /\ keys[1].req.method = keys[2].req.method
    /\ keys[1].req.path = keys[2].req.path
    /\ keys[1].req.query = keys[2].req.query
    /\ keys[1].req.query = Some(<<"a=1">>)
    /\ keys[1].key = keys[2].key

\* C30: the string hashed for the fingerprint is different for every two
\* different (method, path, query) triples, a missing query and an empty
\* one counting as the same: two requests get the same fingerprint if and
\* only if they agree in method, in path and in query text.
C30_Claimed ==
    \A i, j \in 1..Len(keys) :
        keys[i].key = keys[j].key
            <=> /\ keys[i].req.method = keys[j].req.method
                /\ keys[i].req.path = keys[j].req.path
                /\ QueryText(keys[i].req) = QueryText(keys[j].req)

----------------------------------------------------------------------------
(* More claims about the health checker, checked under SpecHealth. *)

\* The health endpoint was the last call and the clock has not moved since.
JustReported ==
    last_op.op = "health_check" /\ last_op.at = now /\ IsSome(response)

\* C18: the health endpoint reports status "unhealthy" if and only if the
\* list get_healthy_backends returns is empty, and healthy_backends never
\* exceeds total_backends.
C18_HealthReport ==
    /\ Len(get_healthy_backends(config, unhealthy_backends, now))
           <= Len(config.backends)
    /\ JustReported =>
           LET report == Unwrap(response).body
               healthy == get_healthy_backends(config, unhealthy_backends, now)
           IN  /\ report.status \in {"healthy", "unhealthy"}
               /\ report.status = "unhealthy" <=> healthy = <<>>
               /\ report.healthy_backends = Len(healthy)
               /\ report.total_backends = Len(config.backends)
    /\ (last_op.op = "health_check" /\ IsSome(response)) =>
           LET report == Unwrap(response).body
           IN  /\ report.healthy_backends <= report.total_backends
               /\ report.status = "unhealthy" <=> report.healthy_backends = 0

\* C18's case: every configured backend is marked, and the endpoint reports
\* "unhealthy" with two configured backends.
C18_Witness ==
    /\ JustReported
    /\ Unwrap(response).body.status = "unhealthy"
    /\ Unwrap(response).body.total_backends = 2

\* What the failure record of b says at the present time: healthy when
\* health checking is disabled, when b has no record, or when the record is
\* at least health_check_interval old.
HealthyByRecord(b) ==
    \/ ~config.health_check_enabled
    \/ b \notin DOMAIN unhealthy_backends
    \/ now >= unhealthy_backends[b] + config.health_check_interval

\* C20: in every state and for every backend B, is_healthy(B) is true if
\* and only if health checking is disabled, or B has no failure record, or
\* now >= failure_time(B) + health_check_interval; every read computes the
\* answer from the record, and the record map holds what the marking calls
\* wrote, whatever was read in between.
C20_HealthyIffNoLiveRecord ==
    /\ \A b \in Range(config.backends) : HealthyNow(b) <=> HealthyByRecord(b)
    /\ unhealthy_backends = failed
    /\ (last_op.op = "is_healthy" /\ last_op.at = now) =>
           (last_op.result <=> HealthyByRecord(last_op.backend))

\* C20's case: a read of a backend whose record has outlived its window,
\* the record still being in the map.
C20_Witness ==
    /\ last_op.op = "is_healthy" /\ last_op.at = now /\ last_op.result
    /\ config.health_check_enabled /\ config.health_check_interval > 0
    /\ last_op.backend \in DOMAIN unhealthy_backends

\* C22: perform_health_check(B) returns true and leaves B without a failure
\* record when the GET to B + "/health" answers with a status in [200,300);
\* otherwise it returns false and leaves B with a failure record stamped
\* now: after every call, a false return value comes with a failure record
\* of B that the call has written, and a true one after a GET with none.
C22_Claimed ==
    (last_op.op = "perform_health_check" /\ last_op.at = now) =>
        LET b == last_op.backend
        IN  /\ ~last_op.result =>
                   /\ b \in DOMAIN unhealthy_backends
                   /\ unhealthy_backends[b] = now
            /\ (last_op.result /\ config.health_check_enabled) =>
                   b \notin DOMAIN unhealthy_backends

----------------------------------------------------------------------------
(* Concurrent selection: MaxProcs requests inside get_backend on the same  *)
(* LoadBalancer, their steps interleaved in any order.  A step is the      *)
(* stretch up to the await of get_healthy_backends, the fetch_add, or the  *)
(* indexing of the healthy list that follows it.                           *)

ProcIds == 1..MaxProcs

\* A get_backend call that has not started.
ProcStart == [pc |-> "start", healthy |-> <<>>, seen |-> None, result |-> None]

CcConfigs ==
    {c \in ConfigsOver({<<BPlain, BPlain2>>, <<BPlain, BPrefix, BSlash>>},
                       {"round_robin", "weighted_round_robin"}) :
        /\ c.health_check_enabled /\ c.health_check_interval = 2
        /\ ~c.cache_enabled /\ c.access_rules = <<>> /\ c.retry_attempts = 3}

InitConc ==
    /\ config \in CcConfigs
    /\ \E c \in StartCounters :
         load_balancer =
             [with_strategy(config.backends,
                  LoadBalancerStrategyFrom(config.load_balancer_strategy))
              EXCEPT !.current_index = c]
    /\ unhealthy_backends = NoMap
    /\ now = 0
    /\ kv = NoMap
    /\ pc = "idle"
    /\ IdleLocals([unhealthy |-> NoMap, load_balancer |-> load_balancer,
                   req |-> NoRequest])
    /\ failed = NoMap
    /\ served = 0
    /\ picks = <<>>
    /\ last_op = NoOp
    /\ procs = [p \in ProcIds |-> ProcStart]
    /\ keys = <<>>

CcUnchanged ==
    UNCHANGED <<config, unhealthy_backends, now, kv, pc, req, is_url_proxy,
                target_url, backend, steps, dispatches, outcome, response,
                pre, healthy_seen, failed, served, picks, last_op, proxy_req,
                backend_response, keys>>

\* get_backend up to the strategy match: the healthy list is computed, and
\* an empty one ends the call with None.
CcGetHealthy(p) ==
    /\ procs[p].pc = "start"
    /\ LET healthy_backends ==
               get_healthy_backends(config, unhealthy_backends, now)
       IN  procs' = [procs EXCEPT
                        ![p].healthy = healthy_backends,
                        ![p].pc = IF healthy_backends = <<>>
                                  THEN "returned" ELSE "select"]
    /\ UNCHANGED load_balancer
    /\ CcUnchanged

\* round_robin_select at current_index.fetch_add(1, Relaxed).
CcFetchAdd(p) ==
    /\ procs[p].pc = "select"
    /\ LET fa == fetch_add(load_balancer.current_index)
       IN  /\ load_balancer' = [load_balancer EXCEPT !.current_index = fa.new]
           /\ procs' = [procs EXCEPT ![p].seen = Some(fa.old),
                                     ![p].pc = "fetched"]
    /\ CcUnchanged

\* round_robin_select after the fetch_add: the backend at the index.
CcReturn(p) ==
    /\ procs[p].pc = "fetched"
    /\ procs' = [procs EXCEPT
                    ![p].result =
                        Some(procs[p].healthy[
                            UsizeRem(Unwrap(procs[p].seen),
                                     Len(procs[p].healthy)) + 1]),
                    ![p].pc = "returned"]
    /\ UNCHANGED load_balancer
    /\ CcUnchanged

NextConc ==
    \/ \E p \in ProcIds : CcGetHealthy(p)
    \/ \E p \in ProcIds : CcFetchAdd(p)
    \/ \E p \in ProcIds : CcReturn(p)

SpecConc == InitConc /\ [][NextConc]_vars

\* The calls that are past their fetch_add.
Fetched == {p \in ProcIds : IsSome(procs[p].seen)}

\* The counter values the calls have read.
SeenValues == {Unwrap(procs[p].seen) : p \in Fetched}

\* c + k as an integer, in limbs; the upper limb reaches LimbBase when the
\* sum is no usize any more.
UsizePlus(c, k) ==
    [hi |-> c.hi + ((c.lo + k) \div LimbBase), lo |-> (c.lo + k) % LimbBase]

\* c + k modulo 2^32.
UsizePlusWrapping(c, k) ==
    [hi |-> (c.hi + ((c.lo + k) \div LimbBase)) % LimbBase,
     lo |-> (c.lo + k) % LimbBase]

\* C19: after k concurrent round-robin selections, in any
\* interleaving, the shared counter is exactly k higher than it started
\* and the selections have read k distinct consecutive counter values.
C19_Claimed ==
    LET start == pre.load_balancer.current_index
        k == Cardinality(Fetched)
    IN  /\ load_balancer.current_index = UsizePlus(start, k)
        /\ SeenValues = {UsizePlus(start, i) : i \in 0..(k - 1)}
        /\ Cardinality(SeenValues) = k

\* What holds in every interleaving: the shared counter is the start value
\* plus k modulo 2^32 (fetch_add wraps at usize::MAX), and the selections
\* have read the k distinct values start, start + 1, ..., start + k - 1
\* modulo 2^32.  No interleaving loses an increment.
NoLostIncrementModulo ==
    LET start == pre.load_balancer.current_index
        k == Cardinality(Fetched)
    IN  /\ load_balancer.current_index = UsizePlusWrapping(start, k)
        /\ SeenValues = {UsizePlusWrapping(start, i) : i \in 0..(k - 1)}
        /\ Cardinality(SeenValues) = k

\* Every call has returned, the last one to start its call having read the
\* start value, and the counter has wrapped in between.
WrappedWhileSelecting ==
    /\ \A p \in ProcIds : procs[p].pc = "returned" /\ IsSome(procs[p].result)
    /\ procs[MaxProcs].seen = Some(pre.load_balancer.current_index)
    /\ pre.load_balancer.current_index = UsizeMax
    /\ load_balancer.current_index = Usize(0, MaxProcs - 1)

----------------------------------------------------------------------------
(* The fetch entry point: main builds a ReverseProxy with from_env for     *)
(* every request it is called with, hands the request to that instance and *)
(* drops the instance when the request has been answered.  picks keeps the *)
(* counter values the round-robin selections have read, in order.          *)

\* ReverseProxy::from_env: the load balancer of a new instance.
NewLoadBalancer(cfg) ==
    with_strategy(cfg.backends,
                  LoadBalancerStrategyFrom(cfg.load_balancer_strategy))

\* main called with a request for any path but the management endpoints:
\* from_env, then handle_request up to its first network call.
Main(r) ==
    /\ Entry(r)
    /\ load_balancer' = NewLoadBalancer(config)
    /\ unhealthy_backends' = NoMap
    /\ pre' = [unhealthy |-> NoMap, load_balancer |-> NewLoadBalancer(config),
               req |-> r]

\* main called with a request for /_proxy/health: from_env, then
\* health_check on the new instance.
MainHealthCheck ==
    /\ pc = "idle"
    /\ served < MaxRequests
    /\ served' = served + 1
    /\ load_balancer' = NewLoadBalancer(config)
    /\ unhealthy_backends' = NoMap
    /\ pre' = [unhealthy |-> NoMap, load_balancer |-> NewLoadBalancer(config),
               req |-> NoRequest]
    /\ response' = Some(health_check(config, NoMap, now))
    /\ outcome' = "health_report"
    /\ pc' = "done"
    /\ UNCHANGED <<config, now, kv, req, is_url_proxy, target_url, backend,
                   steps, dispatches, healthy_seen, failed, picks, last_op,
                   proxy_req, backend_response, procs, keys>>

\* The selection goes through round_robin_select with a backend to return.
ReadsCounter ==
    /\ load_balancer.strategy # "Random"
    /\ get_healthy_backends(config, unhealthy_backends, now) # <<>>

\* handle_request at get_backend, the counter value read being recorded.
MainSelect ==
    /\ Selection
    /\ picks' = IF ReadsCounter
                THEN Append(picks, load_balancer.current_index)
                ELSE picks

\* handle_request at create_proxy_request, which fails: the Err is handed
\* up to main, and nothing is sent.
CreateErr ==
    /\ pc = "create"
    /\ ~new_with_init_ok(target_url)
    /\ steps' = Append(steps, "create")
    /\ outcome' = "internal_error"
    /\ response' = None
    /\ pc' = "done"
    /\ UNCHANGED <<config, load_balancer, unhealthy_backends, now, kv, req,
                   is_url_proxy, target_url, backend, dispatches, pre,
                   healthy_seen, failed, served, picks, last_op, proxy_req,
                   backend_response, procs, keys>>

\* The configurations main is run with: those of the pipeline, and a
\* backend list whose first entry lacks the scheme.
MainConfigs ==
    Configs \cup ConfigsOver({<<BNoScheme, BPlain>>}, PipelineStrategyNames)

InitMain ==
    /\ config \in MainConfigs
    /\ load_balancer = NewLoadBalancer(config)
    /\ unhealthy_backends = NoMap
    /\ now = 0
    /\ kv \in KvStates
    /\ pc = "idle"
    /\ IdleLocals([unhealthy |-> NoMap, load_balancer |-> load_balancer,
                   req |-> NoRequest])
    /\ failed = NoMap
    /\ served = 0
    /\ picks = <<>>
    /\ last_op = NoOp
    /\ procs = NoProcs
    /\ keys = <<>>

NextMain ==
    \/ \E r \in Requests : Main(r)
    \/ MainHealthCheck
    \/ CacheLookup
    \/ MainSelect
    \/ CreateErr
    \/ DispatchErr
    \/ \E resp \in BackendResponses, set_ok \in BOOLEAN : DispatchOk(resp, set_ok)
    \/ Finish
    \/ Tick

SpecMain == InitMain /\ [][NextMain]_vars

\* A step of handle_request that is not the entry: every await of it
\* returns, so a request that has entered goes on until it has returned.
HandlerStep ==
    \/ CacheLookup
    \/ MainSelect
    \/ CreateErr
    \/ DispatchErr
    \/ \E resp \in BackendResponses, set_ok \in BOOLEAN : DispatchOk(resp, set_ok)

\* The configurations the fair runs start from: no, one or two backends
\* under the default strategy, health checking on at the default interval.
FairConfigs ==
    {c \in MainConfigs :
        /\ c.retry_attempts = 3
        /\ c.health_check_enabled /\ c.health_check_interval = 2
        /\ c.load_balancer_strategy = "round_robin"
        /\ Len(c.backends) <= 2}

InitMainFair == InitMain /\ config \in FairConfigs

SpecMainFair == InitMainFair /\ [][NextMain]_vars /\ WF_vars(HandlerStep)

\* C21: the round-robin counter is reset to 0 only by update_backends, which
\* the pipeline never calls: between two requests that enter through the
\* fetch entry point the counter keeps the value the earlier selections
\* left, so the i-th round-robin selection reads the counter value i - 1.
C21_Claimed ==
    \A i \in 1..Len(picks) : picks[i] = Usize(0, i - 1)

\* The terminal outcomes the request pipeline is described with.
ListedOutcomes ==
    {"cors_preflight", "access_denied", "cache_hit", "no_healthy_backend",
     "backend_unavailable", "proxied"}

\* A request has entered handle_request and has not been returned yet.
InHandleRequest == pc # "idle" /\ outcome # "health_report"

\* C29 as claimed: every request that enters handle_request ends with
\* exactly one terminal outcome out of: CORS preflight response,
\* access-denied failure, cached response, 503 no healthy backend, 502
\* backend unavailable, or the final proxied response.
C29_Claimed ==
    (InHandleRequest /\ pc = "done") => outcome \in ListedOutcomes

\* What each terminal outcome comes with.
OutcomeMatchesResponse ==
    /\ outcome = "cors_preflight" =>
           response = Some(handle_cors_preflight) /\ dispatches = 0
    /\ outcome = "access_denied" => response = None /\ dispatches = 0
    /\ outcome = "cache_hit" =>
           /\ response = Some(ResponseOk(kv[generate_cache_key(pre.req)]))
           /\ dispatches = 0
    /\ outcome = "no_healthy_backend" =>
           /\ response = Some(ResponseError("No healthy backends available", 503))
           /\ dispatches = 0
    /\ outcome = "backend_unavailable" =>
           /\ response = Some(ResponseError("Backend unavailable", 502))
           /\ dispatches = 1 /\ RequestNewOk(target_url)
    /\ outcome = "proxied" =>
           /\ IsSome(response) /\ IsSome(backend_response)
           /\ Unwrap(response).status = Unwrap(backend_response).status
           /\ dispatches = 1 /\ RequestNewOk(target_url)
    /\ outcome = "internal_error" =>
           /\ response = None /\ dispatches = 0 /\ proxy_req = None
           /\ ~RequestNewOk(target_url)
    /\ outcome = "headers_error" =>
           /\ response = None /\ IsSome(backend_response)
           /\ dispatches = 1 /\ RequestNewOk(target_url)

\* After a terminal outcome the only step is the return of handle_request,
\* which touches nothing the instance shares and produces no second outcome.
OnlyReturnAfterOutcome ==
    outcome # "none" =>
        /\ outcome' = "none" /\ pc' = "idle"
        /\ UNCHANGED <<load_balancer, unhealthy_backends, kv, now>>

\* What holds of the outcomes of handle_request once its two errors, of
\* create_proxy_request and of a header set on the backend's response,
\* are counted among them: every request that has
\* entered ends, each await returning, with one outcome and the response
\* that belongs to it, and the only step after it is the return.
OneTerminalOutcome ==
    /\ [](InHandleRequest =>
             /\ pc = "done" <=> outcome # "none"
             /\ outcome \in ListedOutcomes
                            \cup {"none", "internal_error", "headers_error"}
             /\ OutcomeMatchesResponse)
    /\ [][OnlyReturnAfterOutcome]_vars
    /\ (InHandleRequest ~> (pc = "done"))

\* A request for a backend configured without a scheme has ended with the
\* error of create_proxy_request, nothing having been sent.
EndedInCreateError ==
    /\ pc = "done" /\ outcome = "internal_error"
    /\ backend = Some(BNoScheme)
    /\ steps = <<"access_control", "resolve", "select", "create">>

----------------------------------------------------------------------------
(* The outbound headers alone: handle_request from apply_request_middleware *)
(* to create_proxy_request, for inbound requests with and without the      *)
(* client-IP, Host and Origin headers and for custom header maps whose     *)
(* keys collide with the headers the pipeline itself sets or removes.      *)

\* The inbound header maps: every subset of CF-Connecting-IP, Host and
\* Origin, next to an Accept header.
HdInboundHeaders ==
    {[k \in ks \cup {"Accept"} |->
         CASE k = "CF-Connecting-IP" -> OkIp
           [] k = "Host" -> <<"proxy.dev">>
           [] k = "Origin" -> <<"https", ":", "/", "/", "site.dev">>
           [] OTHER -> <<"*", "/", "*">>] :
        ks \in SUBSET {"CF-Connecting-IP", "Host", "Origin"}}

\* The inbound requests the header transform is run with.
HdRequests ==
    {[Request("GET", PathX, None, OkIp, None, <<"curl">>, <<>>)
        EXCEPT !.headers = h, !.scheme = sc] :
        h \in HdInboundHeaders, sc \in {"http", "https"}}

\* The CUSTOM_HEADERS values the header transform is run with.
HdCustomHeaders ==
    {NoHeaders,
     CustomHeaders,
     [k \in {"Host"} |-> <<"internal.svc">>],
     [k \in {"Origin", "X-Forwarded-For", "X-Forwarded-Proto"} |-> <<"custom">>],
     [k \in {"X-Forwarded-Host", "X-Proxy-Agent"} |-> <<"custom">>]}

HdConfigs ==
    {[c EXCEPT !.custom_headers = m] : c \in RdConfigs, m \in HdCustomHeaders}

\* handle_request called with an inbound request that no access rule denies.
InitHeaders ==
    /\ config \in HdConfigs
    /\ load_balancer = NewLoadBalancer(config)
    /\ unhealthy_backends = NoMap
    /\ now = 0
    /\ kv = NoMap
    /\ pc = "middleware"
    /\ req \in HdRequests
    /\ is_url_proxy = FALSE
    /\ target_url = TargetX
    /\ backend = Some(config.backends[1])
    /\ steps = <<>>
    /\ dispatches = 0
    /\ outcome = "none"
    /\ response = None
    /\ healthy_seen = None
    /\ proxy_req = None
    /\ backend_response = None
    /\ pre = [unhealthy |-> NoMap, load_balancer |-> load_balancer,
              req |-> req]
    /\ failed = NoMap
    /\ served = 1
    /\ picks = <<>>
    /\ last_op = NoOp
    /\ procs = NoProcs
    /\ keys = <<>>

\* handle_request at apply_request_middleware.
HdApplyRequestMiddleware ==
    /\ pc = "middleware"
    /\ apply_request_middleware(req, config).ok
    /\ req' = apply_request_middleware(req, config).req
    /\ steps' = <<"access_control">>
    /\ pc' = "create"
    /\ UNCHANGED <<config, load_balancer, unhealthy_backends, now, kv,
                   is_url_proxy, target_url, backend, dispatches, outcome,
                   response, pre, healthy_seen, failed, served, picks,
                   last_op, proxy_req, backend_response, procs, keys>>

\* handle_request at create_proxy_request.
HdCreateProxyRequest ==
    /\ pc = "create"
    /\ proxy_req' = Some(create_proxy_request(req, config, target_url))
    /\ pc' = "dispatch"
    /\ UNCHANGED <<config, load_balancer, unhealthy_backends, now, kv, req,
                   is_url_proxy, target_url, backend, steps, dispatches,
                   outcome, response, pre, healthy_seen, failed, served,
                   picks, last_op, backend_response, procs, keys>>

NextHeaders == HdApplyRequestMiddleware \/ HdCreateProxyRequest

SpecHeaders == InitHeaders /\ [][NextHeaders]_vars

\* C23: the outbound request's headers equal the inbound headers with
\* X-Forwarded-For set from the client-IP header, X-Forwarded-Proto set from
\* the original scheme and X-Forwarded-Host set from the original Host, then
\* Host and Origin removed, then every configured custom header overlaid:
\* for every custom header key the outbound value is the configured value.
C23_Claimed ==
    IsSome(proxy_req) =>
        LET inbound == pre.req.headers
            outbound == Unwrap(proxy_req).headers
            custom == config.custom_headers
        IN  \A k \in DOMAIN inbound \cup DOMAIN outbound \cup DOMAIN custom
                     \cup {"X-Forwarded-For", "X-Forwarded-Proto",
                           "X-Forwarded-Host"} :
                HGet(outbound, k) =
                    IF k \in DOMAIN custom THEN Some(custom[k])
                    ELSE IF k \in {"Host", "Origin"} THEN None
                    ELSE IF k = "X-Forwarded-For"
                            /\ IsSome(HGet(inbound, "CF-Connecting-IP"))
                         THEN HGet(inbound, "CF-Connecting-IP")
                    ELSE IF k = "X-Forwarded-Proto"
                         THEN Some(<<pre.req.scheme>>)
                    ELSE IF k = "X-Forwarded-Host"
                            /\ IsSome(HGet(inbound, "Host"))
                         THEN HGet(inbound, "Host")
                    ELSE HGet(inbound, k)

----------------------------------------------------------------------------
(* Selection over a changing healthy list: get_backend and                 *)
(* get_healthy_backends called directly while backends are marked, cleared *)
(* and the clock runs.  picks keeps, for every get_backend call, what the  *)
(* call found and returned, and what a RoundRobin load balancer run side   *)
(* by side from the same counter value returns for the same healthy list.  *)

SlConfigs ==
    {c \in ConfigsOver({<<BPlain, BPlain2>>, <<BPlain, BPrefix, BSlash>>},
                       StrategyNames \ {"fastest"}) :
        ~c.cache_enabled /\ c.access_rules = <<>> /\ c.retry_attempts = 3}

InitSelect ==
    /\ config \in SlConfigs
    /\ \E c \in {UsizeZero, UsizeMax} :
         load_balancer = [NewLoadBalancer(config) EXCEPT !.current_index = c]
    /\ unhealthy_backends = NoMap
    /\ now = 0
    /\ kv = NoMap
    /\ pc = "idle"
    /\ IdleLocals([unhealthy |-> NoMap, load_balancer |-> load_balancer,
                   req |-> NoRequest])
    /\ failed = NoMap
    /\ served = 0
    /\ picks = <<>>
    /\ last_op = NoOp
    /\ procs = NoProcs
    /\ keys = <<>>

\* The RoundRobin load balancer run side by side: as left by its last call.
Twin ==
    IF picks = <<>> THEN [load_balancer EXCEPT !.strategy = "RoundRobin"]
    ELSE picks[Len(picks)].twin.lb

\* One call of LoadBalancer::get_backend.
SlGetBackend ==
    /\ last_op.n < MaxHealthOps
    /\ \E nanos \in NanosValues :
         LET got == get_backend(load_balancer, config, unhealthy_backends, now,
                                nanos)
         IN  /\ load_balancer' = got.lb
             /\ picks' = Append(picks,
                    [result |-> got.result, lb |-> got.lb,
                     twin |-> get_backend(Twin, config, unhealthy_backends,
                                          now, nanos),
                     unhealthy |-> unhealthy_backends, at |-> now])
    /\ last_op' = [op |-> "get_backend", backend |-> <<>>, at |-> now,
                   n |-> last_op.n + 1, result |-> TRUE]
    /\ UNCHANGED <<config, unhealthy_backends, now, kv, pc, req, is_url_proxy,
                   target_url, backend, steps, dispatches, outcome, response,
                   pre, healthy_seen, failed, served, proxy_req,
                   backend_response, procs, keys>>

\* One call of HealthChecker::get_healthy_backends.
SlGetHealthyBackends ==
    /\ last_op.n < MaxHealthOps
    /\ healthy_seen' = Some(get_healthy_backends(config, unhealthy_backends, now))
    /\ last_op' = [op |-> "get_healthy_backends", backend |-> <<>>, at |-> now,
                   n |-> last_op.n + 1, result |-> TRUE]
    /\ UNCHANGED <<config, load_balancer, unhealthy_backends, now, kv, pc, req,
                   is_url_proxy, target_url, backend, steps, dispatches,
                   outcome, response, pre, failed, served, picks, proxy_req,
                   backend_response, procs, keys>>

NextSelect ==
    \/ SlGetBackend
    \/ SlGetHealthyBackends
    \/ \E b \in Range(config.backends) : HcMarkUnhealthy(b)
    \/ \E b \in Range(config.backends) : HcMarkHealthy(b)
    \/ Tick

SpecSelect == InitSelect /\ [][NextSelect]_vars

\* C25: a selector with strategy LeastConnections or WeightedRoundRobin
\* behaves exactly as one with strategy RoundRobin: run side by side from
\* the same counter value on the same sequence of healthy lists, they
\* return the same backend at every step and leave the same counter value.
C25_DegradeToRoundRobin ==
    load_balancer.strategy \in {"LeastConnections", "WeightedRoundRobin"} =>
        \A i \in 1..Len(picks) :
            /\ picks[i].result = picks[i].twin.result
            /\ picks[i].lb.current_index = picks[i].twin.lb.current_index

\* C25's case: two LeastConnections selections, the healthy list having
\* shrunk between them and the counter having wrapped.
C25_Witness ==
    /\ load_balancer.strategy = "LeastConnections"
    /\ Len(picks) = 2
    /\ \A i \in 1..2 : IsSome(picks[i].result)
    /\ picks[1].unhealthy # picks[2].unhealthy
    /\ config.health_check_enabled /\ config.health_check_interval > 0
    /\ pre.load_balancer.current_index = UsizeMax
    /\ load_balancer.current_index = Usize(0, 1)

\* get_healthy_backends was the last call and nothing has changed since.
JustListed ==
    last_op.op = "get_healthy_backends" /\ last_op.at = now /\ IsSome(healthy_seen)

\* The places of the configured backends for which is_healthy is true.
HealthyPlaces ==
    {i \in 1..Len(config.backends) : HealthyNow(config.backends[i])}

\* C26: get_healthy_backends returns exactly the configured backends for
\* which is_healthy is true, in configured order: the result is a
\* subsequence of the backend list, with no backend added, duplicated or
\* reordered.
C26_HealthyListIsFilteredSubsequence ==
    JustListed =>
        LET healthy == Unwrap(healthy_seen)
        IN  /\ Len(healthy) = Cardinality(HealthyPlaces)
            /\ \A j \in 1..Len(healthy) :
                   \E i \in HealthyPlaces :
                       /\ Cardinality({h \in HealthyPlaces : h <= i}) = j
                       /\ healthy[j] = config.backends[i]
            /\ Range(healthy) =
                   {b \in Range(config.backends) : HealthyNow(b)}
            /\ ~config.health_check_enabled => healthy = config.backends

\* C26's case: of three configured backends the second is inside its
\* recovery window, and the list returned holds the first and the third.
C26_Witness ==
    /\ JustListed
    /\ Len(config.backends) = 3
    /\ HealthyPlaces = {1, 3}
    /\ Unwrap(healthy_seen) = <<config.backends[1], config.backends[3]>>

\* C27: whenever get_backend returns a backend, for any strategy and any
\* counter value, that backend is a configured backend for which is_healthy
\* is true at the time of the call; a backend with a failure record whose
\* recovery window has not elapsed is never returned while health checking
\* is enabled.
C27_ReturnsHealthyConfiguredBackend ==
    \A i \in 1..Len(picks) :
        IsSome(picks[i].result) =>
            LET b == Unwrap(picks[i].result)
                records == picks[i].unhealthy
            IN  /\ b \in Range(config.backends)
                /\ is_healthy(config, records, picks[i].at, b)
                /\ config.health_check_enabled =>
                       ~(b \in DOMAIN records
                         /\ picks[i].at < records[b] + config.health_check_interval)

\* C27's case: after the clock has moved, a Random selection returns a
\* backend while another backend is inside its recovery window.
C27_Witness ==
    /\ Len(picks) >= 1
    /\ load_balancer.strategy = "Random"
    /\ LET p == picks[Len(picks)]
       IN  /\ IsSome(p.result)
           /\ config.health_check_enabled
           /\ \E b \in DOMAIN p.unhealthy :
                  p.at < p.unhealthy[b] + config.health_check_interval
           /\ p.at > 0

----------------------------------------------------------------------------
(* The access check alone: apply_request_middleware called for one request *)
(* under rule lists in which several rules of one type, and rules of       *)
(* different types, stand side by side in any order.                       *)

\* The rules the ACCESS_RULES lists are made of.
AcRules ==
    {[rule_type |-> "allow_country", pattern |-> <<"US">>],
     [rule_type |-> "allow_country", pattern |-> <<"CA">>],
     [rule_type |-> "deny_country", pattern |-> <<"KP">>],
     [rule_type |-> "deny_ip", pattern |-> DeniedIp],
     [rule_type |-> "deny_user_agent", pattern |-> <<"bot">>]}

AcRuleLists == UNION {[1..n -> AcRules] : n \in 0..MaxAccessRules}

AcConfigs ==
    {[c EXCEPT !.access_rules = rules] : c \in RdConfigs, rules \in AcRuleLists}

\* The requests the access check is run with: the country the platform
\* supplies (None: no country), the client address and the user agent.
AcRequests ==
    {Request("GET", PathX, None, ip, cc, ua, <<>>) :
        ip \in {OkIp, DeniedIp},
        cc \in {None, Some(<<"US">>), Some(<<"CA">>), Some(<<"KP">>)},
        ua \in {<<"curl">>, <<"good", "bot">>}}

InitAccess ==
    /\ config \in AcConfigs
    /\ load_balancer =
           with_strategy(config.backends,
                         LoadBalancerStrategyFrom(config.load_balancer_strategy))
    /\ unhealthy_backends = NoMap
    /\ now = 0
    /\ kv = NoMap
    /\ pc = "idle"
    /\ IdleLocals([unhealthy |-> NoMap, load_balancer |-> load_balancer,
                   req |-> NoRequest])
    /\ failed = NoMap
    /\ served = 0
    /\ picks = <<>>
    /\ last_op = NoOp
    /\ procs = NoProcs
    /\ keys = <<>>

\* One call of apply_request_middleware(r, config): Err("Access denied")
\* when check_access_control is false, else the rebuilt request.
AcApplyRequestMiddleware(r) ==
    /\ pc = "idle"
    /\ LET mw == apply_request_middleware(r, config)
       IN  /\ req' = mw.req
           /\ outcome' = IF mw.ok THEN "middleware_ok" ELSE "access_denied"
    /\ steps' = <<"access_control">>
    /\ pre' = Snapshot(r)
    /\ pc' = "done"
    /\ UNCHANGED <<config, load_balancer, unhealthy_backends, now, kv,
                   is_url_proxy, target_url, backend, dispatches, response,
                   healthy_seen, failed, served, picks, last_op, proxy_req,
                   backend_response, procs, keys>>

NextAccess == \E r \in AcRequests : AcApplyRequestMiddleware(r)

SpecAccess == InitAccess /\ [][NextAccess]_vars

\* The allow_country rules of a configuration, and its other rules.
AllowCountryRules(cfg) ==
    {i \in 1..Len(cfg.access_rules) :
        cfg.access_rules[i].rule_type = "allow_country"}
DenyRules(cfg) ==
    {i \in 1..Len(cfg.access_rules) :
        cfg.access_rules[i].rule_type
            \in {"deny_ip", "deny_country", "deny_user_agent"}}

\* C32: with several allow_country rules configured, a request whose
\* country code equals the pattern of at least one allow_country rule, and
\* which no deny rule matches, is not denied by access control.
C32_Claimed ==
    (/\ pc = "done"
     /\ Cardinality(AllowCountryRules(config)) >= 2
     /\ IsSome(pre.req.country)
     /\ \E i \in AllowCountryRules(config) :
            config.access_rules[i].pattern = Unwrap(pre.req.country)
     /\ \A i \in DenyRules(config) :
            ~RuleDenies(pre.req, config.access_rules[i])) =>
        outcome # "access_denied"

----------------------------------------------------------------------------
(* The public functions that no path from main reaches, called directly on *)
(* one LoadBalancer and one CacheManager between get_backend calls:        *)
(* LoadBalancer::update_backends and CacheManager::cache_response.         *)
(* cache_response is an async fn on &self with two awaits, response.text() *)
(* and the execute of kv.put: a call runs in three stretches, and other    *)
(* calls, a second cache_response among them, run during its waits.        *)

\* The lists update_backends is called with.
UcBackendLists == {<<>>, <<BPlain2>>, <<BPlain, BPrefix, BSlash>>}

\* The UUIDs generate_cache_key_from_response draws.  Uuid::new_v4 gives a
\* new value at every call: a call takes one that no call took before, and
\* three calls can each store an entry of their own.
Uuids == {"uuid-1", "uuid-2", "uuid-3"}

\* The keys drawn by the cache_response calls so far.
DrawnKeys == {keys[i].key : i \in 1..Len(keys)}

\* The responses cache_response is called with.
UcResponses ==
    BackendResponses
    \cup {ResponseOf(200, <<"hello">>,
                     [k \in {"Cache-Control"} |-> <<"max-age=60">>]),
          ResponseOf(200, <<"secret">>,
                     [k \in {"Cache-Control"} |-> <<"private">>]),
          ResponseOf(404, <<"nope">>, NoHeaders)}

CacheCallIds == 1..MaxCacheCalls

\* A cache_response call that is not running.
CacheCallIdle ==
    [pc |-> "idle", resp |-> ResponseEmpty, cache_key |-> <<>>,
     response_text |-> <<>>]

UcConfigs ==
    {c \in ConfigsOver(LbBackendLists, {"round_robin"}) :
        /\ c.health_check_enabled /\ c.health_check_interval = 2
        /\ c.access_rules = <<>> /\ c.retry_attempts = 3}

InitUncalled ==
    /\ config \in UcConfigs
    /\ \E c \in {UsizeZero, UsizeMax} :
         load_balancer =
             [with_strategy(config.backends,
                  LoadBalancerStrategyFrom(config.load_balancer_strategy))
              EXCEPT !.current_index = c]
    /\ unhealthy_backends = NoMap
    /\ now = 0
    /\ kv = NoMap
    /\ pc = "idle"
    /\ IdleLocals([unhealthy |-> NoMap, load_balancer |-> load_balancer,
                   req |-> NoRequest])
    /\ failed = NoMap
    /\ served = 0
    /\ picks = <<>>
    /\ last_op = NoOp
    /\ procs = [c \in CacheCallIds |-> CacheCallIdle]
    /\ keys = <<>>

\* One call of LoadBalancer::update_backends(backends).
UcUpdateBackends(backends) ==
    /\ load_balancer' = update_backends(load_balancer, backends)
    /\ UNCHANGED <<config, unhealthy_backends, now, kv, pc, req, is_url_proxy,
                   target_url, backend, steps, dispatches, outcome, response,
                   pre, healthy_seen, failed, served, picks, last_op,
                   proxy_req, backend_response, procs, keys>>

UcCacheUnchanged ==
    UNCHANGED <<config, load_balancer, unhealthy_backends, now, pc, req,
                is_url_proxy, target_url, backend, steps, dispatches,
                outcome, response, pre, healthy_seen, failed, served, picks,
                last_op, proxy_req, backend_response>>

\* cache_response(resp) from its start to response.text().await: the two
\* guards, either of which returns Ok at once, and the draw of the key,
\* a UUID that no earlier call drew.
UcCacheResponseStart(c, resp, uuid) ==
    /\ procs[c].pc = "idle"
    /\ IF ~cache_response_goes_on(resp, config)
       THEN UNCHANGED <<procs, keys>>
       ELSE LET cache_key == generate_cache_key_from_response(resp, uuid)
            IN  /\ cache_key \notin DrawnKeys
                /\ procs' = [procs EXCEPT ![c] =
                                [pc |-> "text", resp |-> resp,
                                 cache_key |-> cache_key,
                                 response_text |-> <<>>]]
                /\ keys' = Append(keys, [req |-> NoRequest,
                                         key |-> cache_key])
    /\ UNCHANGED kv
    /\ UcCacheUnchanged

\* cache_response from the end of response.text().await to the await of
\* the put.  The call returns here without a put when the body cannot be
\* read (Err), when PROXY_KV is not bound, or when kv.put refuses the
\* value (Err): goes_on is false.
UcCacheResponseText(c, goes_on) ==
    /\ procs[c].pc = "text"
    /\ procs' = IF goes_on
                THEN [procs EXCEPT ![c].pc = "put",
                                   ![c].response_text = procs[c].resp.body]
                ELSE [procs EXCEPT ![c] = CacheCallIdle]
    /\ UNCHANGED <<kv, keys>>
    /\ UcCacheUnchanged

\* cache_response from the end of kv.put(..).execute().await to its return.
UcCacheResponsePut(c, put_ok) ==
    /\ procs[c].pc = "put"
    /\ kv' = cache_response_put(kv, procs[c].cache_key,
                                procs[c].response_text, put_ok)
    /\ procs' = [procs EXCEPT ![c] = CacheCallIdle]
    /\ UNCHANGED keys
    /\ UcCacheUnchanged

NextUncalled ==
    \/ LbGetBackend
    \/ \E backends \in UcBackendLists : UcUpdateBackends(backends)
    \/ \E c \in CacheCallIds, resp \in UcResponses, uuid \in Uuids :
           UcCacheResponseStart(c, resp, uuid)
    \/ \E c \in CacheCallIds, goes_on \in BOOLEAN :
           UcCacheResponseText(c, goes_on)
    \/ \E c \in CacheCallIds, put_ok \in BOOLEAN :
           UcCacheResponsePut(c, put_ok)

SpecUncalled == InitUncalled /\ [][NextUncalled]_vars

\* update_backends changes what get_backend returns through the counter
\* alone: the backends returned are those of the health checker's
\* configuration, never the list update_backends stored.
UpdateBackendsLeavesSelection ==
    \A i \in 1..Len(picks) :
        IsSome(picks[i]) /\ Unwrap(picks[i]) \in Range(config.backends)

\* cache_response never writes an entry that a lookup can find: no key of
\* the store is the fingerprint of a request.
CacheResponseKeysAreUuids ==
    \A k \in DOMAIN kv : k \in {<<u>> : u \in Uuids}

\* Every cache_response call draws a key of its own: no two calls share
\* one, no call overwrites the entry of another, and every entry of the
\* store is under a key some call drew.
CacheResponseKeysAreFresh ==
    /\ \A i, j \in 1..Len(keys) : keys[i].key = keys[j].key => i = j
    /\ \A c, d \in CacheCallIds :
           (c # d /\ procs[c].pc # "idle" /\ procs[d].pc # "idle") =>
               procs[c].cache_key # procs[d].cache_key
    /\ DOMAIN kv \subseteq DrawnKeys

\* Three cache_response calls have each stored their entry.
ThreeCallsThreeEntries ==
    /\ Cardinality(DOMAIN kv) = 3
    /\ \A c \in CacheCallIds : procs[c].pc = "idle"

\* A cache_response call in flight has passed both guards, and the text it
\* is about to put is the body of its response.
CacheCallsInFlight ==
    \A c \in CacheCallIds :
        /\ procs[c].pc # "idle" =>
               cache_response_goes_on(procs[c].resp, config)
        /\ procs[c].pc = "put" =>
               procs[c].response_text = procs[c].resp.body

\* Two cache_response calls are in flight at once, one waiting for the
\* body and one for the put, after update_backends and get_backend ran.
CacheCallsInterleaved ==
    /\ \E c, d \in CacheCallIds : procs[c].pc = "text" /\ procs[d].pc = "put"
    /\ DOMAIN kv # {}
    /\ load_balancer.backends # config.backends
    /\ Len(picks) >= 1

====
